---------------------------- MODULE Spec2Model ----------------------------
(***************************************************************************)
(* A model of the DEX reader of letmutx/dex-parser.                        *)
(*                                                                         *)
(* The byte buffer is a sequence of bytes; a byte offset o (counted from   *)
(* 0, as in the source) is element o + 1 of the sequence.  Machine         *)
(* integers wider than 16 bits are kept at their width as little-endian    *)
(* sequences of 16-bit limbs: a uint (u32) is <<lo, hi>>, a ulong or usize *)
(* (u64) is four limbs.  ushort and ubyte values are plain naturals.       *)
(* Arithmetic on them returns the wrapped value together with an overflow  *)
(* flag: a build with overflow checks (debug) panics where the flag is     *)
(* set, a build without them (release) goes on with the wrapped value.     *)
(***************************************************************************)
EXTENDS Integers, Sequences, FiniteSets, TLC

VARIABLES
    overflow_checks,  \* the build: TRUE when arithmetic overflow panics
    debug_assertions, \* the build: TRUE when debug_assert! is compiled in
    source,           \* Dex.source: the immutable byte buffer
    inner,            \* the result of DexInner::try_from_ctx on source
    cache,            \* Strings.cache (shared with every StringsIter)
    iter,             \* the StringsIter created by strings(), or NoIter
    res               \* the last operation: [op, arg, out]

vars == <<overflow_checks, debug_assertions, source, inner, cache, iter, res>>

\* what no operation of a constructed Dex changes
fixed == <<overflow_checks, debug_assertions, source, inner>>

(***************************************************************************)
(* Results of operations.                                                  *)
(***************************************************************************)
Ok(v) == [kind |-> "Ok", val |-> v]

Err(e, m) == [kind |-> "Err", err |-> e, msg |-> m]

Panic == [kind |-> "Panic"]

IsOk(r) == r.kind = "Ok"

IsErr(r) == r.kind = "Err"

IsErrOf(r, e) == r.kind = "Err" /\ r.err = e

None == [some |-> FALSE]

Some(v) == [some |-> TRUE, val |-> v]

(***************************************************************************)
(* Machine integers.                                                       *)
(***************************************************************************)
Base == 256 * 256

Limb == 0 .. (Base - 1)

Zeros(w) == [i \in 1 .. w |-> 0]

\* n is a natural below 2^31.
ToWord(n, w) == [i \in 1 .. w |-> IF i = 1 THEN n % Base
                                  ELSE IF i = 2 THEN n \div Base ELSE 0]

U32(n) == ToWord(n, 2)

U64(n) == ToWord(n, 4)

\* ulong::from(x), x as usize, x as ulong
zext(x, w) == [i \in 1 .. w |-> IF i <= Len(x) THEN x[i] ELSE 0]

\* x as uint
trunc(x, w) == [i \in 1 .. w |-> x[i]]

\* TRUE when x is below 2^31, so that ToNat(x) is a number TLC can hold
FitsNat(x) ==
    /\ \A i \in 3 .. Len(x) : x[i] = 0
    /\ Len(x) >= 2 => x[2] < Base \div 2

ToNat(x) == IF Len(x) >= 2 THEN x[1] + Base * x[2] ELSE x[1]

IsZero(x) == \A i \in 1 .. Len(x) : x[i] = 0

RECURSIVE LtFrom(_, _, _)
LtFrom(a, b, i) ==
    IF i = 0 THEN FALSE
    ELSE IF a[i] # b[i] THEN a[i] < b[i]
    ELSE LtFrom(a, b, i - 1)

\* a < b for two words of the same width
Lt(a, b) == LtFrom(a, b, Len(a))

Le(a, b) == ~Lt(b, a)

RECURSIVE AddFrom(_, _, _, _)
AddFrom(a, b, i, carry) ==
    IF i > Len(a) THEN [val |-> <<>>, ovf |-> carry > 0]
    ELSE LET s == a[i] + b[i] + carry
             r == AddFrom(a, b, i + 1, s \div Base)
         IN  [val |-> <<s % Base>> \o r.val, ovf |-> r.ovf]

\* a + b at the width of a: the wrapped sum and whether it overflowed
Add(a, b) == AddFrom(a, b, 1, 0)

RECURSIVE SubFrom(_, _, _, _)
SubFrom(a, b, i, borrow) ==
    IF i > Len(a) THEN [val |-> <<>>, ovf |-> borrow > 0]
    ELSE LET d == a[i] - b[i] - borrow
             r == SubFrom(a, b, i + 1, IF d < 0 THEN 1 ELSE 0)
         IN  [val |-> <<(d + Base) % Base>> \o r.val, ovf |-> r.ovf]

\* a - b at the width of a
Sub(a, b) == SubFrom(a, b, 1, 0)

RECURSIVE MulFrom(_, _, _, _)
MulFrom(a, k, i, carry) ==
    IF i > Len(a) THEN [val |-> <<>>, ovf |-> carry > 0]
    ELSE LET p == a[i] * k + carry
             r == MulFrom(a, k, i + 1, p \div Base)
         IN  [val |-> <<p % Base>> \o r.val, ovf |-> r.ovf]

\* a * k at the width of a, for a small natural k (a record stride, 128)
Mul(a, k) == MulFrom(a, k, 1, 0)

One(w) == ToWord(1, w)

\* a / 2 (usize division in the binary search)
Half(a) == [i \in 1 .. Len(a) |->
               (a[i] \div 2) + (IF i < Len(a) /\ a[i + 1] % 2 = 1
                                THEN Base \div 2 ELSE 0)]

\* std::ops::Range<uint>::contains
RangeContains(r, x) == Le(r.start, x) /\ Lt(x, r.end)

(***************************************************************************)
(* Positioned reads of the buffer (scroll's pread_with / gread_with): a    *)
(* read that starts at or runs past the end of the buffer is an error.     *)
(***************************************************************************)
ScrollErr == Err("Scroll", "bad offset or too big")

\* element at byte offset o
At(src, o) == src[o + 1]

read_u8(src, o) ==
    IF o >= Len(src) THEN ScrollErr ELSE Ok(At(src, o))

read_u16(src, o, endian) ==
    IF o >= Len(src) \/ Len(src) - o < 2 THEN ScrollErr
    ELSE IF endian = "LE" THEN Ok(At(src, o) + 256 * At(src, o + 1))
         ELSE Ok(At(src, o + 1) + 256 * At(src, o))

read_u32(src, o, endian) ==
    IF o >= Len(src) \/ Len(src) - o < 4 THEN ScrollErr
    ELSE IF endian = "LE"
         THEN Ok(<<At(src, o) + 256 * At(src, o + 1),
                   At(src, o + 2) + 256 * At(src, o + 3)>>)
         ELSE Ok(<<At(src, o + 3) + 256 * At(src, o + 2),
                   At(src, o + 1) + 256 * At(src, o)>>)

\* the same reads at an offset held in a machine word (offset as usize)
pread_u16(src, off, endian) ==
    IF ~FitsNat(off) THEN ScrollErr ELSE read_u16(src, ToNat(off), endian)

pread_u32(src, off, endian) ==
    IF ~FitsNat(off) THEN ScrollErr ELSE read_u32(src, ToNat(off), endian)

\* a field of a Pread-derived struct that is known to lie inside the buffer
Field32(src, o, endian) == read_u32(src, o, endian).val

(***************************************************************************)
(* scroll::Uleb128::read: 7 bits a byte, the high bit continues, at most   *)
(* ten bytes into a u64.  Returns the value and the offset after it.       *)
(***************************************************************************)
MaxUlebBytes == 10

RECURSIVE UlebFrom(_, _, _)
UlebFrom(src, o, n) ==
    IF o >= Len(src) THEN ScrollErr
    ELSE LET byte == At(src, o)
         IN  IF n = MaxUlebBytes - 1 /\ byte # 0 /\ byte # 1
             THEN Err("Scroll", "failed to parse")
             ELSE IF byte < 128
                  THEN Ok([val |-> U64(byte), next |-> o + 1])
                  ELSE LET r == UlebFrom(src, o + 1, n + 1)
                       IN  IF ~IsOk(r) THEN r
                           ELSE Ok([val  |-> Add(Mul(r.val.val, 128).val,
                                                 U64(byte % 128)).val,
                                    next |-> r.val.next])

Uleb128_read(src, o) == UlebFrom(src, o, 0)

\* n ULEB128 values read one after the other from offset o: the values and
\* the offset after the last, or the error of the first read that fails
RECURSIVE Uleb128_reads(_, _, _)
Uleb128_reads(src, o, n) ==
    LET pushed(first, rest) ==
            IF ~IsOk(rest) THEN rest
            ELSE Ok([val |-> <<first.val.val>> \o rest.val.val, next |-> rest.val.next])
        read(first) ==
            IF ~IsOk(first) THEN first
            ELSE pushed(first, Uleb128_reads(src, first.val.next, n - 1))
    IN  IF n = 0 THEN Ok([val |-> <<>>, next |-> o])
        ELSE read(Uleb128_read(src, o))

(***************************************************************************)
(* adler32::adler32 over a byte sequence.                                  *)
(***************************************************************************)
AdlerMod == 65521

\* over the offsets lo .. hi: the sum of the bytes, and the sum of the
\* bytes each weighted by the number of bytes from it to the end
RECURSIVE AdlerSums(_, _, _)
AdlerSums(src, lo, hi) ==
    IF lo > hi THEN <<0, 0>>
    ELSE IF lo = hi
         THEN <<At(src, lo) % AdlerMod, ((Len(src) - lo) * At(src, lo)) % AdlerMod>>
    ELSE LET mid == (lo + hi) \div 2
             l == AdlerSums(src, lo, mid)
             r == AdlerSums(src, mid + 1, hi)
         IN  <<(l[1] + r[1]) % AdlerMod, (l[2] + r[2]) % AdlerMod>>

\* the checksum of src[from..] as a uint, (b << 16) | a: a is one plus the
\* sum of the bytes, b the sum of the successive values of a
adler32(src, from) ==
    LET sums == AdlerSums(src, from, Len(src) - 1)
    IN  <<(1 + sums[1]) % AdlerMod, ((Len(src) - from) + sums[2]) % AdlerMod>>

(***************************************************************************)
(* Header, MapItem, MapList and DexInner (dex.rs).                         *)
(***************************************************************************)
HeaderSize == 112

Header_pread(src, endian) ==
    IF Len(src) < HeaderSize THEN ScrollErr
    ELSE Ok([magic           |-> SubSeq(src, 1, 8),
             checksum        |-> Field32(src, 8, endian),
             signature       |-> SubSeq(src, 13, 32),
             file_size       |-> Field32(src, 32, endian),
             header_size     |-> Field32(src, 36, endian),
             endian_tag      |-> SubSeq(src, 41, 44),
             link_size       |-> Field32(src, 44, endian),
             link_off        |-> Field32(src, 48, endian),
             map_off         |-> Field32(src, 52, endian),
             string_ids_size |-> Field32(src, 56, endian),
             string_ids_off  |-> Field32(src, 60, endian),
             type_ids_size   |-> Field32(src, 64, endian),
             type_ids_off    |-> Field32(src, 68, endian),
             proto_ids_size  |-> Field32(src, 72, endian),
             proto_ids_off   |-> Field32(src, 76, endian),
             field_ids_size  |-> Field32(src, 80, endian),
             field_ids_off   |-> Field32(src, 84, endian),
             method_ids_size |-> Field32(src, 88, endian),
             method_ids_off  |-> Field32(src, 92, endian),
             class_defs_size |-> Field32(src, 96, endian),
             class_defs_off  |-> Field32(src, 100, endian),
             data_size       |-> Field32(src, 104, endian),
             data_off        |-> Field32(src, 108, endian)])

\* Header::data_section: data_off .. data_off + data_size, the sum in uint
data_section_sum(header) == Add(header.data_off, header.data_size)

Header_data_section(header) ==
    [start |-> header.data_off, end |-> data_section_sum(header).val]

NO_INDEX == <<Base - 1, Base - 1>>

ENDIAN_CONSTANT == <<18, 52, 86, 120>>

REVERSE_ENDIAN_CONSTANT == <<120, 86, 52, 18>>

ItemTypes == (0 .. 8) \cup (4096 .. 4099) \cup (8192 .. 8198)

MethodHandleItemType == 8

MapItemSize == 12

MapItem_try_from_ctx(src, o, endian) ==
    LET item(t, u, s, f) ==
            IF ~IsOk(t) THEN t
            ELSE IF t.val \notin ItemTypes
                 THEN Err("InvalidId", "Invalid item type in map_list")
            ELSE IF ~IsOk(u) THEN u
            ELSE IF ~IsOk(s) THEN s
            ELSE IF ~IsOk(f) THEN f
            ELSE Ok([item_type |-> t.val, size |-> s.val, offset |-> f.val])
    IN  item(read_u16(src, o, endian), read_u16(src, o + 2, endian),
             read_u32(src, o + 4, endian), read_u32(src, o + 8, endian))

\* try_gread_vec_with!(source, offset, size, endian) over MapItems: items
\* k, k + 1, ... while k < size
RECURSIVE MapItemsFrom(_, _, _, _, _)
MapItemsFrom(src, o, k, size, endian) ==
    LET pushed(item, rest) == IF ~IsOk(rest) THEN rest
                              ELSE Ok(<<item.val>> \o rest.val)
        read(item) ==
            IF ~IsOk(item) THEN item
            ELSE pushed(item, MapItemsFrom(src, o + MapItemSize, k + 1, size, endian))
    IN  IF ~Lt(U32(k), size) THEN Ok(<<>>)
        ELSE read(MapItem_try_from_ctx(src, o, endian))

MapList_try_from_ctx(src, off, endian) ==
    LET list(items) == IF ~IsOk(items) THEN items
                       ELSE Ok([map_items |-> items.val])
        sized(size) ==
            IF ~IsOk(size) THEN size
            ELSE list(MapItemsFrom(src, ToNat(off) + 4, 0, size.val, endian))
    IN  sized(pread_u32(src, off, endian))

\* MapList::get: the first item of the type, if any
MapList_get(map_list, item_type) ==
    LET idx == {i \in 1 .. Len(map_list.map_items) :
                   map_list.map_items[i].item_type = item_type}
    IN  IF idx = {} THEN None
        ELSE Some(map_list.map_items[CHOOSE i \in idx : \A j \in idx : i <= j])

MinTagLen == 44

\* a DexInner that takes every tag but ENDIAN_CONSTANT for little-endian
DexInner_try_from_ctx_any_tag(src, checks) ==
    IF Len(src) <= MinTagLen THEN Err("MalFormed", "Invalid dex file")
    ELSE
    LET decoded(en, h) ==
            IF ~IsOk(h) THEN h
            ELSE IF checks /\ data_section_sum(h.val).ovf THEN Panic
            ELSE IF ~RangeContains(Header_data_section(h.val), h.val.map_off)
                 THEN Err("BadOffset", "map_list not in data section")
            ELSE IF adler32(src, 12) # h.val.checksum
                 THEN Err("MalFormed", "File corrupted, adler32 checksum doesn't match")
            ELSE LET m == MapList_try_from_ctx(src, zext(h.val.map_off, 4), en)
                 IN  IF ~IsOk(m) THEN m
                     ELSE Ok([header |-> h.val, map_list |-> m.val, endian |-> en])
        tagged(en) == decoded(en, Header_pread(src, en))
    IN  tagged(IF SubSeq(src, 41, 44) = ENDIAN_CONSTANT THEN "BE" ELSE "LE")

DexInner_try_from_ctx(src, checks) ==
    IF Len(src) <= MinTagLen THEN Err("MalFormed", "Invalid dex file")
    ELSE
    LET endian_tag == SubSeq(src, 41, 44)
    IN  IF endian_tag # ENDIAN_CONSTANT /\ endian_tag # REVERSE_ENDIAN_CONSTANT
        THEN Err("MalFormed", "Bad endian tag")
        ELSE
        LET endian == IF endian_tag = ENDIAN_CONSTANT THEN "BE" ELSE "LE"
            header == Header_pread(src, endian)
        IN  IF ~IsOk(header) THEN header
            ELSE IF checks /\ data_section_sum(header.val).ovf THEN Panic
            ELSE IF ~RangeContains(Header_data_section(header.val), header.val.map_off)
                 THEN Err("BadOffset", "map_list not in data section")
            ELSE IF adler32(src, 12) # header.val.checksum
                 THEN Err("MalFormed", "File corrupted, adler32 checksum doesn't match")
            ELSE LET map_list == MapList_try_from_ctx(src, zext(header.val.map_off, 4), endian)
                 IN  IF ~IsOk(map_list) THEN map_list
                     ELSE Ok([header   |-> header.val,
                              map_list |-> map_list.val,
                              endian   |-> endian])

\* DexReader::from_vec up to the DexInner: pread(0) of the buffer
DexReader_from_vec(src, checks) ==
    IF Len(src) = 0 THEN ScrollErr ELSE DexInner_try_from_ctx(src, checks)

(***************************************************************************)
(* MUTF-8 (cesu8's Java variant).  A string is a sequence of Unicode       *)
(* scalar values.                                                          *)
(***************************************************************************)
Enc3(c) == <<224 + (c \div 4096), 128 + ((c \div 64) % 64), 128 + (c % 64)>>

EncodeChar(c) ==
    IF c = 0 THEN <<192, 128>>
    ELSE IF c < 128 THEN <<c>>
    ELSE IF c < 2048 THEN <<192 + (c \div 64), 128 + (c % 64)>>
    ELSE IF c < 65536 THEN Enc3(c)
    ELSE Enc3(55296 + ((c - 65536) \div 1024)) \o Enc3(56320 + ((c - 65536) % 1024))

RECURSIVE to_java_cesu8(_)
to_java_cesu8(str) ==
    IF str = <<>> THEN <<>> ELSE EncodeChar(Head(str)) \o to_java_cesu8(Tail(str))

IsCont(b) == b >= 128 /\ b < 192

\* the 16-bit unit of a three-byte sequence
Unit3(b, i) == (b[i] - 224) * 4096 + (b[i + 1] - 128) * 64 + (b[i + 2] - 128)

HasCont(b, i, n) == i + n <= Len(b) /\ \A k \in 1 .. n : IsCont(b[i + k])

BadString == Err("MalFormed", "Malformed string")

\* from_java_cesu8 from byte i on: Ok(the scalar values) or BadString
RECURSIVE DecodeFrom(_, _)
DecodeFrom(b, i) ==
    IF i > Len(b) THEN Ok(<<>>)
    ELSE LET f == b[i]
             one(c, n) == LET r == DecodeFrom(b, i + n)
                          IN  IF ~IsOk(r) THEN r ELSE Ok(<<c>> \o r.val)
         IN  IF f < 128 THEN one(f, 1)
             ELSE IF f = 192
                  THEN IF i + 1 <= Len(b) /\ b[i + 1] = 128 THEN one(0, 2)
                       ELSE BadString
             ELSE IF f >= 194 /\ f < 224
                  THEN IF HasCont(b, i, 1)
                       THEN one((f - 192) * 64 + (b[i + 1] - 128), 2)
                       ELSE BadString
             ELSE IF f >= 224 /\ f < 240
                  THEN IF ~HasCont(b, i, 2) THEN BadString
                       ELSE LET u == Unit3(b, i)
                            IN  IF u < 2048 THEN BadString
                                ELSE IF u < 55296 \/ u >= 57344 THEN one(u, 3)
                                ELSE IF u >= 56320 THEN BadString
                                ELSE IF i + 5 <= Len(b) /\ b[i + 3] = 237
                                        /\ HasCont(b, i + 3, 2)
                                        /\ Unit3(b, i + 3) >= 56320
                                        /\ Unit3(b, i + 3) < 57344
                                     THEN one(65536 + (u - 55296) * 1024
                                              + (Unit3(b, i + 3) - 56320), 6)
                                     ELSE BadString
             ELSE IF f >= 240 /\ f < 245
                  THEN IF ~HasCont(b, i, 3) THEN BadString
                       ELSE LET c == (f - 240) * 262144 + (b[i + 1] - 128) * 4096
                                     + (b[i + 2] - 128) * 64 + (b[i + 3] - 128)
                            IN  IF c < 65536 \/ c > 1114111 THEN BadString
                                ELSE one(c, 4)
             ELSE BadString

from_java_cesu8(bytes) == DecodeFrom(bytes, 1)

\* the bytes from offset o up to the first NUL or the end of the buffer
RECURSIVE UntilNul(_, _)
UntilNul(src, o) ==
    IF o >= Len(src) \/ At(src, o) = 0 THEN <<>>
    ELSE <<At(src, o)>> \o UntilNul(src, o + 1)

RECURSIVE call(_, _)

\* source.pread::<DexString>(off): DexString::try_from_ctx on source[off..]
DexString_pread(src, off) ==
    LET string(count) == IF ~IsOk(count) THEN count
                         ELSE from_java_cesu8(UntilNul(src, count.val.next))
    IN  IF ~FitsNat(off) \/ ToNat(off) >= Len(src) THEN ScrollErr
        ELSE string(Uleb128_read(src, ToNat(off)))

(***************************************************************************)
(* Cache (cache.rs) over lru::LruCache: the entries in order of use, the   *)
(* least recently used first.                                              *)
(***************************************************************************)
Cache_new(cap) == [cap |-> cap, entries |-> <<>>]

KeyIndex(c, key) ==
    LET idx == {i \in 1 .. Len(c.entries) : c.entries[i].key = key}
    IN  IF idx = {} THEN 0 ELSE CHOOSE i \in idx : TRUE

Without(seq, i) == SubSeq(seq, 1, i - 1) \o SubSeq(seq, i + 1, Len(seq))

\* a lookup that takes the most recently used entry whatever its key
Cache_get_newest(c, key) ==
    IF c.entries = <<>> THEN [out |-> None, cache |-> c]
    ELSE [out |-> Some(c.entries[Len(c.entries)].val), cache |-> c]

\* Cache::get: the value, and the entry becomes the most recently used
Cache_get(c, key) ==
    LET i == KeyIndex(c, key)
    IN  IF i = 0 THEN [out |-> None, cache |-> c]
        ELSE [out   |-> Some(c.entries[i].val),
              cache |-> [c EXCEPT !.entries = Append(Without(@, i), c.entries[i])]]

\* a put that evicts the most recently used entry of a full cache
Cache_put_newest(c, key, val) ==
    LET i == KeyIndex(c, key)
        e == [key |-> key, val |-> val]
    IN  IF i # 0 THEN [c EXCEPT !.entries = Append(Without(@, i), e)]
        ELSE IF Len(c.entries) >= c.cap
             THEN [c EXCEPT !.entries = Append(SubSeq(@, 1, Len(@) - 1), e)]
             ELSE [c EXCEPT !.entries = Append(@, e)]

\* Cache::put: replaces the key's value, or inserts it, evicting the least
\* recently used entry of a full cache
Cache_put(c, key, val) ==
    LET i == KeyIndex(c, key)
        e == [key |-> key, val |-> val]
    IN  IF i # 0 THEN [c EXCEPT !.entries = Append(Without(@, i), e)]
        ELSE IF Len(c.entries) >= c.cap
             THEN [c EXCEPT !.entries = Append(Tail(@), e)]
             ELSE [c EXCEPT !.entries = Append(@, e)]

(***************************************************************************)
(* The constructed Dex: the header, the endianness and the fields of       *)
(* Strings, as DexReader::from_vec sets them.                              *)
(***************************************************************************)
header == inner.val.header

endian == inner.val.endian

map_list == inner.val.map_list

Strings_offset == header.string_ids_off

Strings_len == header.string_ids_size

Strings_data_section == Header_data_section(header)

StringCacheSize == 4096

\* Strings::parse
Strings_parse(id) ==
    LET at(string_data_off) ==
            IF ~IsOk(string_data_off) THEN string_data_off
            ELSE IF ~RangeContains(Strings_data_section, string_data_off.val)
                 THEN Err("BadOffset", "string_data_off not in data section")
                 ELSE call("DexString_pread", <<source, zext(string_data_off.val, 4)>>)
    IN  at(pread_u32(source,
                     Add(zext(Strings_offset, 4), Mul(zext(id, 4), 4).val).val,
                     endian))

\* Strings::get: the result and the cache after the call
Strings_get(c, id) ==
    LET cached(got) == [out |-> Ok(got.out.val), cache |-> got.cache]
        put(hit, parsed) ==
            IF ~IsOk(parsed) THEN [out |-> parsed, cache |-> hit.cache]
            ELSE cached(Cache_get(Cache_put(hit.cache, id, parsed.val), id))
        looked_up(hit) ==
            IF hit.out.some THEN [out |-> Ok(hit.out.val), cache |-> hit.cache]
            ELSE put(hit, Strings_parse(id))
    IN  IF Le(Strings_len, id)
        THEN [out |-> Err("InvalidId", "Invalid string id"), cache |-> c]
        ELSE looked_up(Cache_get(c, id))

\* a get_string that empties the cache on an id outside the table
get_string_evicting(c, string_id) ==
    IF Le(header.string_ids_size, string_id)
    THEN [out |-> Err("InvalidId", "Invalid string id"), cache |-> Cache_new(c.cap)]
    ELSE call("Strings_get", <<c, string_id>>)

\* Dex::get_string
get_string(c, string_id) ==
    IF Le(header.string_ids_size, string_id)
    THEN [out |-> Err("InvalidId", "Invalid string id"), cache |-> c]
    ELSE call("Strings_get", <<c, string_id>>)

(***************************************************************************)
(* Section::binary_search (search.rs).  The two comparators of the crate   *)
(* are named by a tag: "string" is the closure of Strings::get_id, "type"  *)
(* the closure of Dex::get_type_id.  Indices are usize words.              *)
(***************************************************************************)
RECURSIVE SeqCmp(_, _)
SeqCmp(a, b) ==
    IF a = <<>> THEN (IF b = <<>> THEN "Equal" ELSE "Less")
    ELSE IF b = <<>> THEN "Greater"
    ELSE IF Head(a) < Head(b) THEN "Less"
    ELSE IF Head(a) > Head(b) THEN "Greater"
    ELSE SeqCmp(Tail(a), Tail(b))

WordCmp(a, b) == IF Lt(a, b) THEN "Less" ELSE IF Lt(b, a) THEN "Greater" ELSE "Equal"

\* the closure of Strings::get_id: skip the length prefix of the stored
\* string, then compare the query with the next element.len() bytes
string_predicate(data_offset, element) ==
    LET compared(count) ==
            IF ~IsOk(count) THEN count
            ELSE IF count.val.next + Len(element) > Len(source) THEN Panic
            ELSE Ok(SeqCmp(element,
                           SubSeq(source, count.val.next + 1,
                                  count.val.next + Len(element))))
    IN  IF ~FitsNat(data_offset) THEN ScrollErr
        ELSE compared(Uleb128_read(source, ToNat(data_offset)))

\* the closure of Dex::get_type_id
type_predicate(value, element) == Ok(WordCmp(element, value))

predicate(tag, item, element) ==
    IF tag = "string" THEN string_predicate(item, element)
    ELSE type_predicate(item, element)

ItemSize == 4

RECURSIVE search_loop(_, _, _, _, _)
search_loop(sect, element, tag, start, end) ==
    LET lower(mid, less) ==
            IF less.ovf /\ overflow_checks THEN Panic
            ELSE search_loop(sect, element, tag, start, less.val)
        compared(mid, result) ==
            IF ~IsOk(result) THEN result
            ELSE IF result.val = "Equal" THEN Ok(Some(mid))
            ELSE IF ~Lt(start, end) THEN Ok(None)
            ELSE IF result.val = "Less" THEN lower(mid, Sub(mid, One(4)))
            ELSE search_loop(sect, element, tag, Add(mid, One(4)).val, end)
        read(mid, item) ==
            IF ~IsOk(item) THEN item
            ELSE compared(mid, predicate(tag, item.val, element))
        at(mid, mid_offset) ==
            IF mid_offset.ovf /\ overflow_checks THEN Panic
            ELSE read(mid, pread_u32(sect, mid_offset.val, endian))
        probe(mid) == at(mid, Mul(mid, ItemSize))
    IN  IF Lt(start, end) THEN probe(Add(start, Half(Sub(end, start).val)).val)
        ELSE probe(start)

Section_binary_search(sect, element, tag) ==
    LET sized(first) ==
            IF ~IsOk(first) THEN first
            ELSE search_loop(sect, element, tag, U64(0),
                             Sub(U64(Len(sect) \div ItemSize), One(4)).val)
    IN  IF sect = <<>> THEN Ok(None) ELSE sized(read_u32(sect, 0, endian))

\* &source[start..end] for offsets held in usize words: the slice, or a
\* panic when it reaches past the buffer
Slice(src, start, end) ==
    IF ~FitsNat(end) \/ ToNat(end) > Len(src) THEN Panic
    ELSE Ok(SubSeq(src, ToNat(start) + 1, ToNat(end)))

\* Result<Option<usize>> to Result<Option<u32>> (index as StringId / TypeId)
AsId(r) == IF IsOk(r) /\ r.val.some THEN Ok(Some(trunc(r.val.val, 2))) ELSE r

\* Strings::get_id
Strings_get_id(string) ==
    LET searched(string_section) ==
            IF ~IsOk(string_section) THEN string_section
            ELSE AsId(call("Section_binary_search", <<string_section.val,
                                            to_java_cesu8(string), "string">>))
    IN  searched(Slice(source, zext(Strings_offset, 4),
                       Add(zext(Strings_offset, 4),
                           Mul(zext(Strings_len, 4), ItemSize).val).val))

(***************************************************************************)
(* Dex: types and the id tables (dex.rs).  An operation that can touch the *)
(* string cache returns its result and the cache after the call.           *)
(***************************************************************************)
AnyOvf(steps) == \E i \in 1 .. Len(steps) : steps[i].ovf

\* Dex::get_type
get_type(c, type_id) ==
    LET len1 == Sub(header.type_ids_size, One(2))
        span == Mul(len1.val, 4)
        max_offset == Add(header.type_ids_off, span.val)
        scaled == Mul(type_id, 4)
        offset == Add(header.type_ids_off, scaled.val)
        typed(str) ==
            [out   |-> IF IsOk(str.out)
                       THEN Ok([id |-> type_id, type_descriptor |-> str.out.val])
                       ELSE str.out,
             cache |-> str.cache]
        read(string_id) ==
            IF ~IsOk(string_id) THEN [out |-> string_id, cache |-> c]
            ELSE typed(call("get_string", <<c, string_id.val>>))
    IN  IF overflow_checks /\ AnyOvf(<<len1, span, max_offset, scaled, offset>>)
        THEN [out |-> Panic, cache |-> c]
        ELSE IF Lt(max_offset.val, offset.val)
             THEN [out |-> Err("InvalidId", "Invalid type id"), cache |-> c]
        ELSE read(pread_u32(source, zext(offset.val, 4), endian))

\* Dex::type_ids_section
type_ids_section ==
    LET start == zext(header.type_ids_off, 4)
    IN  Slice(source, start, Add(start, Mul(zext(header.type_ids_size, 4), 4).val).val)

\* Dex::get_type_id
get_type_id(string_id) ==
    LET searched(types_section) ==
            IF ~IsOk(types_section) THEN types_section
            ELSE AsId(call("Section_binary_search", <<types_section.val, string_id, "type">>))
    IN  searched(type_ids_section)

\* Dex::get_type_from_descriptor
get_type_from_descriptor(c, descriptor) ==
    LET typed(type) ==
            [out   |-> IF IsOk(type.out) THEN Ok(Some(type.out.val)) ELSE type.out,
             cache |-> type.cache]
        of_type(type_id) ==
            IF ~IsOk(type_id) THEN [out |-> type_id, cache |-> c]
            ELSE IF ~type_id.val.some THEN [out |-> Ok(None), cache |-> c]
            ELSE typed(call("get_type", <<c, type_id.val.val>>))
        of_string(string_id) ==
            IF ~IsOk(string_id) THEN [out |-> string_id, cache |-> c]
            ELSE IF ~string_id.val.some THEN [out |-> Ok(None), cache |-> c]
            ELSE of_type(call("get_type_id", <<string_id.val.val>>))
    IN  of_string(call("Strings_get_id", <<descriptor>>))

\* source.pread_with(offset as usize, endian) of a #[derive(Pread)] struct
\* of two ushorts and a uint (FieldIdData, MethodIdItem)
pread_2_2_4(off) ==
    LET all(a, b, d) ==
            IF ~IsOk(a) THEN a ELSE IF ~IsOk(b) THEN b ELSE IF ~IsOk(d) THEN d
            ELSE Ok(<<a.val, b.val, d.val>>)
    IN  all(pread_u16(source, off, endian),
            pread_u16(source, Add(off, U64(2)).val, endian),
            pread_u32(source, Add(off, U64(4)).val, endian))

\* the same for a struct of three uints (ProtoIdItem)
pread_4_4_4(off) ==
    LET all(a, b, d) ==
            IF ~IsOk(a) THEN a ELSE IF ~IsOk(b) THEN b ELSE IF ~IsOk(d) THEN d
            ELSE Ok(<<a.val, b.val, d.val>>)
    IN  all(pread_u32(source, off, endian),
            pread_u32(source, Add(off, U64(4)).val, endian),
            pread_u32(source, Add(off, U64(8)).val, endian))

FieldIdItem_try_from_dex(offset, field_id) ==
    LET item(field) ==
            IF ~IsOk(field) THEN field
            ELSE Ok([class_idx |-> field.val[1], type_idx |-> field.val[2],
                     name_idx |-> field.val[3], id |-> field_id])
    IN  item(pread_2_2_4(offset))

ProtoIdItem_try_from_dex(offset) ==
    LET item(proto) ==
            IF ~IsOk(proto) THEN proto
            ELSE Ok([shorty |-> proto.val[1], return_type |-> proto.val[2],
                     params_off |-> proto.val[3]])
    IN  item(pread_4_4_4(offset))

MethodIdItem_try_from_dex(offset) ==
    LET item(method) ==
            IF ~IsOk(method) THEN method
            ELSE Ok([class_idx |-> method.val[1], proto_idx |-> method.val[2],
                     name_idx |-> method.val[3]])
    IN  item(pread_2_2_4(offset))

\* Dex::get_field_item: the offset in ulong, the bound in uint
get_field_item(field_id) ==
    LET scaled == Mul(field_id, 8)
        offset == Add(zext(header.field_ids_off, 4), scaled.val)
        len1 == Sub(header.field_ids_size, One(2))
        span == Mul(len1.val, 8)
        max_offset == Add(header.field_ids_off, span.val)
    IN  IF overflow_checks /\ AnyOvf(<<scaled, offset, len1, span, max_offset>>)
        THEN Panic
        ELSE IF Lt(zext(max_offset.val, 4), offset.val)
             THEN Err("InvalidId", "Invalid field id")
        ELSE FieldIdItem_try_from_dex(offset.val, field_id)

\* Dex::get_proto_item: (len - 1) * 12 in uint, the sum in ulong
get_proto_item(proto_id) ==
    LET scaled == Mul(proto_id, 12)
        offset == Add(zext(header.proto_ids_off, 4), scaled.val)
        len1 == Sub(header.proto_ids_size, One(2))
        span == Mul(len1.val, 12)
        max_offset == Add(zext(header.proto_ids_off, 4), zext(span.val, 4))
    IN  IF overflow_checks /\ AnyOvf(<<scaled, offset, len1, span, max_offset>>)
        THEN Panic
        ELSE IF Lt(max_offset.val, offset.val)
             THEN Err("InvalidId", "Invalid proto id")
        ELSE ProtoIdItem_try_from_dex(offset.val)

\* Dex::get_method_item
get_method_item(method_id) ==
    LET scaled == Mul(method_id, 8)
        offset == Add(zext(header.method_ids_off, 4), scaled.val)
        len1 == Sub(header.method_ids_size, One(2))
        span == Mul(len1.val, 8)
        max_offset == Add(header.method_ids_off, span.val)
    IN  IF overflow_checks /\ AnyOvf(<<scaled, offset, len1, span, max_offset>>)
        THEN Panic
        ELSE IF Lt(zext(max_offset.val, 4), offset.val)
             THEN Err("InvalidId", "Invalid method id")
        ELSE MethodIdItem_try_from_dex(offset.val)

MethodHandleTypes == 0 .. 8

\* MethodHandleItem::try_from_ctx on source[offset..]
MethodHandleItem_try_from_ctx(offset) ==
    LET item(handle_type, unused1, id, unused2) ==
            IF ~IsOk(handle_type) THEN handle_type
            ELSE IF handle_type.val \notin MethodHandleTypes
                 THEN Err("InvalidId", "Invalid handle type")
            ELSE IF ~IsOk(unused1) THEN unused1
            ELSE IF ~IsOk(id) THEN id
            ELSE IF ~IsOk(unused2) THEN unused2
            ELSE Ok([handle_type |-> handle_type.val,
                     id |-> [kind |-> IF handle_type.val <= 3 THEN "Field"
                                      ELSE "Method",
                             id   |-> U64(id.val)]])
    IN  item(pread_u16(source, offset, endian),
             pread_u16(source, Add(offset, U64(2)).val, endian),
             pread_u16(source, Add(offset, U64(4)).val, endian),
             pread_u16(source, Add(offset, U64(6)).val, endian))

\* Dex::get_method_handle_item: the section is the map_list's entry
get_method_handle_item(method_handle_id) ==
    LET item == MapList_get(map_list, MethodHandleItemType)
        len1 == Sub(item.val.size, One(2))
        span == Mul(len1.val, 8)
        max_offset == Add(item.val.offset, span.val)
        scaled == Mul(method_handle_id, 8)
        offset == Add(item.val.offset, scaled.val)
    IN  IF ~item.some THEN Err("InvalidId", "Invalid method handle id")
        ELSE IF overflow_checks /\ AnyOvf(<<len1, span, max_offset, scaled, offset>>)
             THEN Panic
        ELSE IF Lt(max_offset.val, offset.val)
             THEN Err("InvalidId", "Invalid method handle id")
        ELSE MethodHandleItem_try_from_ctx(zext(offset.val, 4))

(***************************************************************************)
(* StringsIter (string.rs) and Dex::strings.                               *)
(***************************************************************************)
StringsIter_new(len) == [current |-> U64(0), len |-> len]

\* an iterator that stays at an id whose string it could not fetch
StringsIter_next_stuck(it, c) ==
    LET stepped(next) ==
            [item  |-> Some(next.out),
             iter  |-> IF IsOk(next.out)
                       THEN [it EXCEPT !.current = Add(it.current, One(4)).val]
                       ELSE it,
             cache |-> next.cache]
    IN  IF Le(it.len, it.current) THEN [item |-> None, iter |-> it, cache |-> c]
        ELSE stepped(call("Strings_get", <<c, trunc(it.current, 2)>>))

\* StringsIter::next: the item, the iterator and the cache after the call
StringsIter_next(it, c) ==
    LET stepped(next, current) ==
            IF current.ovf /\ overflow_checks
            THEN [item |-> Some(Panic), iter |-> it, cache |-> next.cache]
            ELSE [item  |-> Some(next.out),
                  iter  |-> [it EXCEPT !.current = current.val],
                  cache |-> next.cache]
    IN  IF Le(it.len, it.current) THEN [item |-> None, iter |-> it, cache |-> c]
        ELSE stepped(call("Strings_get", <<c, trunc(it.current, 2)>>), Add(it.current, One(4)))

(***************************************************************************)
(* Decoders (scroll's TryFromCtx implementations).  A decoder reads at an  *)
(* offset of the buffer and returns the value with the offset after it;    *)
(* a decoder that can reach the string cache returns the cache as well.    *)
(***************************************************************************)
R(out, c) == [out |-> out, cache |-> c]

Decoded(v, next) == Ok([val |-> v, next |-> next])

\* Vec::with_capacity(cap) of elements of elem_size bytes panics when the
\* allocation would exceed isize::MAX bytes
CapacityOverflow(cap, elem_size) ==
    LET bytes == Mul(cap, elem_size)
    IN  bytes.ovf \/ bytes.val[4] >= Base \div 2

\* 2^k as a 64-bit word, k < 64
Pow2(k) == [i \in 1 .. 4 |-> IF i = (k \div 16) + 1 THEN 2 ^ (k % 16) ELSE 0]

\* scroll::Sleb128::read from byte n on: the unsigned part, the number of
\* bytes and the last byte
RECURSIVE SlebFrom(_, _, _)
SlebFrom(src, o, n) ==
    IF o >= Len(src) THEN ScrollErr
    ELSE LET byte == At(src, o)
         IN  IF n = MaxUlebBytes - 1 /\ byte # 0 /\ byte # 127
             THEN Err("Scroll", "failed to parse")
             ELSE IF byte < 128
                  THEN Ok([val |-> U64(byte), next |-> o + 1, last |-> byte])
                  ELSE LET r == SlebFrom(src, o + 1, n + 1)
                       IN  IF ~IsOk(r) THEN r
                           ELSE Ok([r.val EXCEPT !.val =
                                       Add(Mul(@, 128).val, U64(byte % 128)).val])

\* scroll::Sleb128::read: an i64 in two's complement
Sleb128_read(src, o) ==
    LET signed(r, shift) ==
            IF shift < 64 /\ (r.last \div 64) % 2 = 1
            THEN Decoded(Sub(r.val, Pow2(shift)).val, r.next)
            ELSE Decoded(r.val, r.next)
        extended(r) == IF ~IsOk(r) THEN r ELSE signed(r.val, 7 * (r.val.next - o))
    IN  extended(SlebFrom(src, o, 0))

IsNegative(x) == x[Len(x)] >= Base \div 2

\* i64::abs: overflows for i64::MIN
Abs(x) == IF IsNegative(x)
          THEN [val |-> Sub(Zeros(Len(x)), x).val,
                ovf |-> x = [i \in 1 .. Len(x) |-> IF i = Len(x) THEN Base \div 2 ELSE 0]]
          ELSE [val |-> x, ovf |-> FALSE]

\* a little-endian byte array as a word of Len(bytes) / 2 limbs
WordLE(bytes) == [i \in 1 .. (Len(bytes) \div 2) |-> bytes[2 * i - 1] + 256 * bytes[2 * i]]

\* an extension with zeros whatever the sign of the last byte read
try_extended_gread_zero(o, value_arg, size, sign_extended) ==
    IF o + value_arg >= Len(source) THEN Err("Scroll", "too big")
    ELSE IF value_arg + 1 > size THEN Panic
    ELSE Decoded([i \in 1 .. size |-> IF i <= value_arg + 1
                                      THEN At(source, o + i - 1) ELSE 0],
                 o + 1 + value_arg)

\* try_extended_gread!: value_arg + 1 bytes at o, extended to size bytes
\* with zeros or with the sign of the last byte read
try_extended_gread(o, value_arg, size, sign_extended) ==
    IF o + value_arg >= Len(source) THEN Err("Scroll", "too big")
    ELSE IF value_arg + 1 > size THEN Panic
    ELSE LET last_byte_is_neg == At(source, o + value_arg) >= 128
             fill == IF sign_extended /\ last_byte_is_neg THEN 255 ELSE 0
         IN  Decoded([i \in 1 .. size |-> IF i <= value_arg + 1
                                          THEN At(source, o + i - 1) ELSE fill],
                     o + 1 + value_arg)

ValueTypes == {0, 2, 3, 4, 6, 16, 17, 21, 22, 23, 24, 25, 26, 27, 28, 29, 30, 31}

ValueTypeName(value_type) ==
    CASE value_type = 0 -> "Byte" [] value_type = 2 -> "Short"
      [] value_type = 3 -> "Char" [] value_type = 4 -> "Int"
      [] value_type = 6 -> "Long" [] value_type = 16 -> "Float"
      [] value_type = 17 -> "Double" [] value_type = 21 -> "MethodType"
      [] value_type = 22 -> "MethodHandle" [] value_type = 23 -> "String"
      [] value_type = 24 -> "Type" [] value_type = 25 -> "Field"
      [] value_type = 26 -> "Method" [] value_type = 27 -> "Enum"
      [] value_type = 28 -> "Array" [] value_type = 29 -> "Annotation"
      [] value_type = 30 -> "Null" [] value_type = 31 -> "Boolean"

\* the debug_assert! on value_arg of each value type
ValueArgAssert(name, value_arg) ==
    CASE name \in {"Byte", "Array", "Annotation", "Null"} -> value_arg = 0
      [] name \in {"Short", "Char", "Boolean"} -> value_arg < 2
      [] name \in {"Long", "Double"} -> value_arg < 8
      [] OTHER -> value_arg < 4

\* the width in bytes a value type is extended to
ValueSize(name) ==
    CASE name = "Byte" -> 1
      [] name \in {"Short", "Char"} -> 2
      [] name \in {"Long", "Double"} -> 8
      [] OTHER -> 4

RECURSIVE gread(_, _, _, _)
RECURSIVE gread_loop(_, _, _, _, _, _, _)

\* size_of of the element types that are collected into a Vec
ElemSize(tag) ==
    CASE tag = "ushort" -> 2
      [] tag = "uint" -> 4
      [] tag = "TryItem" -> 8
      [] tag \in {"EncodedTypeAddrPair", "EncodedField"} -> 16
      [] tag = "EncodedMethod" -> 24
      [] tag \in {"FieldAnnotation", "MethodAnnotation", "ParameterAnnotation",
                  "EncodedCatchHandler"} -> 32
      [] tag = "EncodedValue" -> 40
      [] tag = "AnnotationElement" -> 48
      [] tag = "DexString" -> 8

\* try_gread_vec_with!(source, offset, cap, ctx): cap items of one type, one
\* after the other from offset o
try_gread_vec_with(tag, c, o, cap, ctx) ==
    IF CapacityOverflow(cap, ElemSize(tag)) THEN R(Panic, c)
    ELSE gread_loop(tag, c, o, 0, cap, ctx, <<>>)

\* EncodedValue::try_from_ctx.  A number is kept as the little-endian
\* bytes it is read from after extension; an index is resolved by the Dex.
EncodedValue_try_from_ctx(c, o) ==
    LET item(name, raw, r) ==
            R(IF IsOk(r.out)
              THEN Decoded([type |-> name, val |-> r.out.val], raw.val.next)
              ELSE r.out, r.cache)
        nested(name, a, val) ==
            IF ~IsOk(a.out) THEN a
            ELSE R(Decoded([type |-> name, val |-> val], a.out.val.next), a.cache)
        extended(name, raw, index) ==
            IF ~IsOk(raw) THEN R(raw, c)
            ELSE IF name \in {"Byte", "Short", "Char", "Int", "Long", "Float", "Double"}
                 THEN R(Decoded([type |-> name, bytes |-> raw.val.val], raw.val.next), c)
            ELSE IF name = "MethodType"
                 THEN item(name, raw, R(call("get_proto_item", <<zext(index, 4)>>), c))
            ELSE IF name = "MethodHandle"
                 THEN item(name, raw, R(call("get_method_handle_item", <<index>>), c))
            ELSE IF name = "String" THEN item(name, raw, call("get_string", <<c, index>>))
            ELSE IF name = "Type" THEN item(name, raw, call("get_type", <<c, index>>))
            ELSE IF name \in {"Field", "Enum"}
                 THEN item(name, raw, R(call("get_field_item", <<zext(index, 4)>>), c))
            ELSE item(name, raw, R(call("get_method_item", <<zext(index, 4)>>), c))
        read(name, raw) == extended(name, raw, WordLE(raw.val.val))
        array(name, a) == nested(name, a, a.out.val.val.values)
        annotation(name, a) == nested(name, a, a.out.val.val)
        value(value_arg, value_type, name) ==
            IF value_type \notin ValueTypes
            THEN R(Err("InvalidId", "Invalid value type"), c)
            ELSE IF debug_assertions /\ ~ValueArgAssert(name, value_arg)
                 THEN R(Panic, c)
            ELSE IF name = "Null" THEN R(Decoded([type |-> name], o + 1), c)
            ELSE IF name = "Boolean"
                 THEN R(Decoded([type |-> name, val |-> (value_arg = 1)], o + 1), c)
            ELSE IF name = "Array"
                 THEN array(name, call("gread", <<"EncodedArray", c, o + 1, <<>>>>))
            ELSE IF name = "Annotation"
                 THEN annotation(name, call("gread", <<"EncodedAnnotation", c, o + 1, <<>>>>))
            ELSE read(name, try_extended_gread(o + 1, value_arg, ValueSize(name),
                                               name \in {"Short", "Int", "Long"}))
        typed(value_arg, value_type) ==
            value(value_arg, value_type, ValueTypeName(value_type))
    IN  typed(At(source, o) \div 32, At(source, o) % 32)

\* EncodedArray::try_from_ctx
EncodedArray_try_from_ctx(c, o) ==
    LET array(values) ==
            IF ~IsOk(values.out) THEN values
            ELSE R(Decoded([values |-> values.out.val.val], values.out.val.next),
                   values.cache)
        sized(size) ==
            IF ~IsOk(size) THEN R(size, c)
            ELSE IF CapacityOverflow(size.val.val, ElemSize("EncodedValue"))
                 THEN R(Panic, c)
            ELSE array(gread_loop("EncodedValue", c, size.val.next, 0, size.val.val,
                                  <<>>, <<>>))
    IN  sized(Uleb128_read(source, o))

\* AnnotationElement::try_from_ctx
AnnotationElement_try_from_ctx(c, o) ==
    LET element(name_idx, value) ==
            IF ~IsOk(value.out) THEN value
            ELSE R(Decoded([name_idx |-> trunc(name_idx.val.val, 2),
                            value    |-> value.out.val.val],
                           value.out.val.next), value.cache)
        named(name_idx) ==
            IF ~IsOk(name_idx) THEN R(name_idx, c)
            ELSE element(name_idx, call("gread", <<"EncodedValue", c, name_idx.val.next, <<>>>>))
    IN  named(Uleb128_read(source, o))

\* EncodedAnnotation::try_from_ctx
EncodedAnnotation_try_from_ctx(c, o) ==
    LET annotation(type_idx, elements) ==
            IF ~IsOk(elements.out) THEN elements
            ELSE R(Decoded([type_idx |-> trunc(type_idx.val.val, 2),
                            elements |-> elements.out.val.val],
                           elements.out.val.next), elements.cache)
        sized(type_idx, size) ==
            IF ~IsOk(size) THEN R(size, c)
            ELSE annotation(type_idx,
                            call("try_gread_vec_with", <<"AnnotationElement", c, size.val.next,
                                               size.val.val, <<>>>>))
        typed(type_idx) ==
            IF ~IsOk(type_idx) THEN R(type_idx, c)
            ELSE sized(type_idx, Uleb128_read(source, type_idx.val.next))
    IN  typed(Uleb128_read(source, o))

\* source.pread_with(offset as usize, ctx): the value without its size
pread_with(tag, c, off, ctx) ==
    LET value(r) == IF IsOk(r.out) THEN R(Ok(r.out.val.val), r.cache) ELSE r
    IN  IF ~FitsNat(off) THEN R(ScrollErr, c)
        ELSE value(call("gread", <<tag, c, ToNat(off), ctx>>))

\* a data section that takes in the offset one past its end
is_offset_in_data_section_inclusive(offset) ==
    /\ Le(Header_data_section(header).start, offset)
    /\ Le(offset, Header_data_section(header).end)

\* Dex::is_offset_in_data_section; the sum data_off + data_size is formed
\* on every call
is_offset_in_data_section(offset) ==
    RangeContains(Header_data_section(header), offset)

data_section_panics == overflow_checks /\ data_section_sum(header).ovf

Visibilities == 0 .. 2

\* AnnotationItem::try_from_ctx
AnnotationItem_try_from_ctx(c, o) ==
    LET item(visibility, annotation) ==
            IF ~IsOk(annotation.out) THEN annotation
            ELSE R(Decoded([visibility |-> visibility,
                            annotation |-> annotation.out.val.val],
                           annotation.out.val.next), annotation.cache)
        visible(visibility) ==
            IF visibility \notin Visibilities
            THEN R(Err("InvalidId", "Invalid visibility for annotation"), c)
            ELSE item(visibility, call("gread", <<"EncodedAnnotation", c, o + 1, <<>>>>))
    IN  visible(At(source, o))

\* Dex::get_annotation_item
get_annotation_item(c, annotation_off) ==
    IF data_section_panics THEN R(Panic, c)
    ELSE IF ~is_offset_in_data_section(annotation_off)
         THEN R(Err("BadOffset", "AnnotationItem offset not in data section"), c)
    ELSE call("pread_with", <<"AnnotationItem", c, zext(annotation_off, 4), <<>>>>)

\* iter().map(f).collect::<Result<Vec<_>>>() for the fallible lookups of
\* the Dex, named by a tag: the results in order up to the first failure
RECURSIVE collect(_, _, _, _)

\* AnnotationSetItem::try_from_ctx
AnnotationSetItem_try_from_ctx(c, o) ==
    LET set(annotation_items_offs, annotations) ==
            IF ~IsOk(annotations.out) THEN annotations
            ELSE R(Decoded([annotations |-> annotations.out.val],
                           annotation_items_offs.out.val.next), annotations.cache)
        listed(annotation_items_offs) ==
            IF ~IsOk(annotation_items_offs.out) THEN annotation_items_offs
            ELSE set(annotation_items_offs,
                     call("collect", <<"get_annotation_item", annotation_items_offs.cache,
                             annotation_items_offs.out.val.val, 1>>))
        sized(size) ==
            IF ~IsOk(size) THEN R(size, c)
            ELSE listed(call("try_gread_vec_with", <<"uint", c, o + 4, zext(size.val, 4),
                                           endian>>))
    IN  sized(read_u32(source, o, endian))

AnnotationSetItem_default == [annotations |-> <<>>]

\* Dex::get_annotation_set_item
get_annotation_set_item(c, annotation_set_item_off) ==
    IF IsZero(annotation_set_item_off) THEN R(Ok(AnnotationSetItem_default), c)
    ELSE IF data_section_panics THEN R(Panic, c)
    ELSE IF ~is_offset_in_data_section(annotation_set_item_off)
         THEN R(Err("BadOffset", "AnnotationSetItem offset not in data section"), c)
    ELSE call("pread_with", <<"AnnotationSetItem", c, zext(annotation_set_item_off, 4), <<>>>>)

\* an AnnotationSetRefList::try_from_ctx that leaves out the sets of offset 0
AnnotationSetRefList_try_from_ctx_present(c, o) ==
    LET list(annotation_ref_items, annotation_set_list) ==
            IF ~IsOk(annotation_set_list.out) THEN annotation_set_list
            ELSE R(Decoded([annotation_set_list |-> annotation_set_list.out.val],
                           annotation_ref_items.out.val.next),
                   annotation_set_list.cache)
        listed(annotation_ref_items) ==
            IF ~IsOk(annotation_ref_items.out) THEN annotation_ref_items
            ELSE list(annotation_ref_items,
                      call("collect", <<"get_annotation_set_item", annotation_ref_items.cache,
                              SelectSeq(annotation_ref_items.out.val.val,
                                        LAMBDA off : ~IsZero(off)), 1>>))
        sized(size) ==
            IF ~IsOk(size) THEN R(size, c)
            ELSE listed(call("try_gread_vec_with", <<"uint", c, o + 4, zext(size.val, 4),
                                           endian>>))
    IN  sized(read_u32(source, o, endian))

\* AnnotationSetRefList::try_from_ctx
AnnotationSetRefList_try_from_ctx(c, o) ==
    LET list(annotation_ref_items, annotation_set_list) ==
            IF ~IsOk(annotation_set_list.out) THEN annotation_set_list
            ELSE R(Decoded([annotation_set_list |-> annotation_set_list.out.val],
                           annotation_ref_items.out.val.next),
                   annotation_set_list.cache)
        listed(annotation_ref_items) ==
            IF ~IsOk(annotation_ref_items.out) THEN annotation_ref_items
            ELSE list(annotation_ref_items,
                      call("collect", <<"get_annotation_set_item", annotation_ref_items.cache,
                              annotation_ref_items.out.val.val, 1>>))
        sized(size) ==
            IF ~IsOk(size) THEN R(size, c)
            ELSE listed(call("try_gread_vec_with", <<"uint", c, o + 4, zext(size.val, 4),
                                           endian>>))
    IN  sized(read_u32(source, o, endian))

AnnotationSetRefList_default == [annotation_set_list |-> <<>>]

\* Dex::get_annotation_set_ref_list
get_annotation_set_ref_list(c, annotation_set_ref_list_off) ==
    IF data_section_panics THEN R(Panic, c)
    ELSE IF ~is_offset_in_data_section(annotation_set_ref_list_off)
         THEN R(Err("BadOffset", "AnnotationSetRefList offset not in data section"), c)
    ELSE call("pread_with", <<"AnnotationSetRefList", c,
                    zext(annotation_set_ref_list_off, 4), <<>>>>)

\* FieldAnnotation::try_from_ctx and MethodAnnotation::try_from_ctx: an
\* index and the AnnotationSetItem at an offset
ItemAnnotation_try_from_ctx(c, o, idx_name) ==
    LET item(idx, annotations) ==
            IF ~IsOk(annotations.out) THEN annotations
            ELSE R(Decoded([idx |-> zext(idx.val, 4),
                            annotations |-> annotations.out.val],
                           o + 8), annotations.cache)
        read(idx, annotation_set_item_off) ==
            IF ~IsOk(idx) THEN R(idx, c)
            ELSE IF ~IsOk(annotation_set_item_off) THEN R(annotation_set_item_off, c)
            ELSE item(idx, call("get_annotation_set_item", <<c, annotation_set_item_off.val>>))
    IN  read(read_u32(source, o, endian), read_u32(source, o + 4, endian))

\* ParameterAnnotation::try_from_ctx
ParameterAnnotation_try_from_ctx(c, o) ==
    LET item(method_idx, annotations) ==
            IF ~IsOk(annotations.out) THEN annotations
            ELSE R(Decoded([idx |-> zext(method_idx.val, 4),
                            annotations |-> annotations.out.val],
                           o + 8), annotations.cache)
        read(method_idx, annotation_set_ref_list_off) ==
            IF ~IsOk(method_idx) THEN R(method_idx, c)
            ELSE IF ~IsOk(annotation_set_ref_list_off)
                 THEN R(annotation_set_ref_list_off, c)
            ELSE item(method_idx,
                      call("get_annotation_set_ref_list", <<c, annotation_set_ref_list_off.val>>))
    IN  read(read_u32(source, o, endian), read_u32(source, o + 4, endian))

\* AnnotationsDirectoryItem::try_from_ctx
AnnotationsDirectoryItem_try_from_ctx(c, o) ==
    LET directory(class_annotations, field_annotations, method_annotations,
                  parameter_annotations) ==
            IF ~IsOk(parameter_annotations.out) THEN parameter_annotations
            ELSE R(Decoded([class_annotations     |-> class_annotations.out.val,
                            field_annotations     |-> field_annotations.out.val.val,
                            method_annotations    |-> method_annotations.out.val.val,
                            parameter_annotations |->
                                parameter_annotations.out.val.val],
                           parameter_annotations.out.val.next),
                   parameter_annotations.cache)
        of_methods(sizes, class_annotations, field_annotations, method_annotations) ==
            IF ~IsOk(method_annotations.out) THEN method_annotations
            ELSE directory(class_annotations, field_annotations, method_annotations,
                           call("try_gread_vec_with", <<"ParameterAnnotation",
                                              method_annotations.cache,
                                              method_annotations.out.val.next,
                                              zext(sizes[3], 4), <<>>>>))
        of_fields(sizes, class_annotations, field_annotations) ==
            IF ~IsOk(field_annotations.out) THEN field_annotations
            ELSE of_methods(sizes, class_annotations, field_annotations,
                            call("try_gread_vec_with", <<"MethodAnnotation",
                                               field_annotations.cache,
                                               field_annotations.out.val.next,
                                               zext(sizes[2], 4), <<>>>>))
        of_class(sizes, class_annotations) ==
            IF ~IsOk(class_annotations.out) THEN class_annotations
            ELSE of_fields(sizes, class_annotations,
                           call("try_gread_vec_with", <<"FieldAnnotation",
                                              class_annotations.cache, o + 16,
                                              zext(sizes[1], 4), <<>>>>))
        read(class_annotations_off, fields_size, annotated_method_size,
             annotated_parameters_size) ==
            IF ~IsOk(class_annotations_off) THEN R(class_annotations_off, c)
            ELSE IF ~IsOk(fields_size) THEN R(fields_size, c)
            ELSE IF ~IsOk(annotated_method_size) THEN R(annotated_method_size, c)
            ELSE IF ~IsOk(annotated_parameters_size)
                 THEN R(annotated_parameters_size, c)
            ELSE of_class(<<fields_size.val, annotated_method_size.val,
                            annotated_parameters_size.val>>,
                          call("get_annotation_set_item", <<c, class_annotations_off.val>>))
    IN  read(read_u32(source, o, endian), read_u32(source, o + 4, endian),
             read_u32(source, o + 8, endian), read_u32(source, o + 12, endian))

AnnotationsDirectoryItem_default ==
    [class_annotations |-> AnnotationSetItem_default, field_annotations |-> <<>>,
     method_annotations |-> <<>>, parameter_annotations |-> <<>>]

\* Dex::get_annotations_directory_item
get_annotations_directory_item(c, annotations_directory_item_off) ==
    IF IsZero(annotations_directory_item_off)
    THEN R(Ok(AnnotationsDirectoryItem_default), c)
    ELSE IF data_section_panics THEN R(Panic, c)
    ELSE IF ~is_offset_in_data_section(annotations_directory_item_off)
         THEN R(Err("BadOffset", "Annotations directory offset not in data section"), c)
    ELSE call("pread_with", <<"AnnotationsDirectoryItem", c,
                    zext(annotations_directory_item_off, 4), <<>>>>)

EncodedArray_default == [values |-> <<>>]

\* Dex::get_static_values
get_static_values(c, static_values_off) ==
    IF IsZero(static_values_off) THEN R(Ok(EncodedArray_default), c)
    ELSE IF data_section_panics THEN R(Panic, c)
    ELSE IF ~is_offset_in_data_section(static_values_off)
         THEN R(Err("BadOffset", "Class static values offset not in data section"), c)
    ELSE call("pread_with", <<"EncodedArray", c, zext(static_values_off, 4), <<>>>>)

\* Dex::get_interfaces
get_interfaces(c, offset) ==
    LET types(type_ids) ==
            IF ~IsOk(type_ids.out) THEN type_ids
            ELSE call("collect", <<"get_type", type_ids.cache, type_ids.out.val.val, 1>>)
        sized(len) ==
            IF ~IsOk(len) THEN R(len, c)
            ELSE types(call("try_gread_vec_with", <<"ushort", c, ToNat(offset) + 4,
                                          zext(len.val, 4), endian>>))
    IN  IF IsZero(offset) THEN R(Ok(<<>>), c)
        ELSE IF data_section_panics THEN R(Panic, c)
        ELSE IF ~is_offset_in_data_section(offset)
             THEN R(Err("BadOffset", "Interfaces offset not in data section"), c)
        ELSE sized(pread_u32(source, zext(offset, 4), endian))

\* Dex::get_source_file
get_source_file(c, file_id) ==
    LET file(s) == R(IF IsOk(s.out) THEN Ok(Some(s.out.val)) ELSE s.out, s.cache)
    IN  IF file_id = NO_INDEX THEN R(Ok(None), c)
        ELSE file(call("get_string", <<c, file_id>>))

\* EncodedField::try_from_ctx: the id is the previous id plus a difference
EncodedField_try_from_ctx(o, prev_id) ==
    LET field(read, field_id) ==
            IF ~IsOk(read) THEN read
            ELSE IF field_id.ovf /\ overflow_checks THEN Panic
            ELSE Decoded([id |-> field_id.val, access_flags |-> read.val.val[2]],
                         read.val.next)
        items(read) == field(read, Add(prev_id, read.val.val[1]))
    IN  items(Uleb128_reads(source, o, 2))

\* EncodedMethod::try_from_ctx
EncodedMethod_try_from_ctx(o, prev_id) ==
    LET method(read, method_id) ==
            IF ~IsOk(read) THEN read
            ELSE IF method_id.ovf /\ overflow_checks THEN Panic
            ELSE Decoded([id |-> method_id.val, access_flags |-> read.val.val[2],
                          code_offset |-> read.val.val[3]],
                         read.val.next)
        items(read) == method(read, Add(prev_id, read.val.val[1]))
    IN  items(Uleb128_reads(source, o, 3))

\* the loop of EncodedItemArray::try_from_ctx: item k of len, each decoded
\* with the id of the one before it
RECURSIVE encoded_items(_, _, _, _, _)
encoded_items(tag, o, k, len, prev) ==
    LET pushed(encoded_item, rest) ==
            IF ~IsOk(rest) THEN rest
            ELSE Decoded(<<encoded_item.val.val>> \o rest.val.val, rest.val.next)
        read(encoded_item) ==
            IF ~IsOk(encoded_item) THEN encoded_item
            ELSE pushed(encoded_item,
                        encoded_items(tag, encoded_item.val.next, k + 1, len,
                                      encoded_item.val.val.id))
    IN  IF ~Lt(U64(k), len) THEN Decoded(<<>>, o)
        ELSE IF o >= Len(source) THEN ScrollErr
        ELSE read(IF tag = "EncodedField" THEN EncodedField_try_from_ctx(o, prev)
                  ELSE EncodedMethod_try_from_ctx(o, prev))

\* EncodedItemArray::try_from_ctx
EncodedItemArray_try_from_ctx(tag, o, len) ==
    IF CapacityOverflow(len, ElemSize(tag)) THEN Panic
    ELSE encoded_items(tag, o, 0, len, U64(0))

\* encoded_array!(source, dex, offset, size)
encoded_array(tag, o, size) ==
    LET some(array) == IF ~IsOk(array) THEN array
                       ELSE Decoded(Some(array.val.val), array.val.next)
    IN  IF IsZero(size) THEN Decoded(None, o)
        ELSE IF o >= Len(source) THEN ScrollErr
        ELSE some(EncodedItemArray_try_from_ctx(tag, o, size))

\* the four encoded_array! of ClassDataItem::try_from_ctx from array k on:
\* static and instance fields, then direct and virtual methods
RECURSIVE class_data_arrays(_, _, _)
class_data_arrays(o, sizes, k) ==
    LET pushed(array, rest) ==
            IF ~IsOk(rest) THEN rest
            ELSE Decoded(<<array.val.val>> \o rest.val.val, rest.val.next)
        read(array) ==
            IF ~IsOk(array) THEN array
            ELSE pushed(array, class_data_arrays(array.val.next, sizes, k + 1))
    IN  IF k > Len(sizes) THEN Decoded(<<>>, o)
        ELSE read(encoded_array(IF k <= 2 THEN "EncodedField" ELSE "EncodedMethod",
                                o, sizes[k]))

\* ClassDataItem::try_from_ctx
ClassDataItem_try_from_ctx(o) ==
    LET item(arrays) ==
            IF ~IsOk(arrays) THEN arrays
            ELSE Decoded([static_fields   |-> arrays.val.val[1],
                          instance_fields |-> arrays.val.val[2],
                          direct_methods  |-> arrays.val.val[3],
                          virtual_methods |-> arrays.val.val[4]],
                         arrays.val.next)
        sized(sizes) ==
            IF ~IsOk(sizes) THEN sizes
            ELSE item(class_data_arrays(sizes.val.next, sizes.val.val, 1))
    IN  sized(Uleb128_reads(source, o, 4))

\* Dex::get_class_data
get_class_data(offset) ==
    LET data(class_data) ==
            IF IsOk(class_data) THEN Ok(Some(class_data.val.val)) ELSE class_data
    IN  IF IsZero(offset) THEN Ok(None)
        ELSE IF data_section_panics THEN Panic
        ELSE IF ~is_offset_in_data_section(offset)
             THEN Err("BadOffset", "ClassData offset not in data section")
        ELSE IF ~FitsNat(offset) \/ ToNat(offset) >= Len(source) THEN ScrollErr
        ELSE data(ClassDataItem_try_from_ctx(ToNat(offset)))

\* (x as u32).overflowing_sub(1).0: an index stored as index + 1
MinusOne(x) == Sub(trunc(x, 2), One(2)).val

\* the parameter names of DebugInfoItem::try_from_ctx, name k of size
RECURSIVE debug_parameter_names(_, _, _, _)
debug_parameter_names(c, o, k, size) ==
    LET pushed(name, rest) ==
            IF ~IsOk(rest.out) THEN rest
            ELSE R(Decoded(<<name.out.val>> \o rest.out.val.val, rest.out.val.next),
                   rest.cache)
        named(id, name) ==
            IF ~IsOk(name.out) THEN name
            ELSE pushed(name, debug_parameter_names(name.cache, id.val.next, k + 1,
                                                    size))
        optional(s) == R(IF IsOk(s.out) THEN Ok(Some(s.out.val)) ELSE s.out, s.cache)
        of_id(id, string_id) ==
            named(id, IF string_id # NO_INDEX THEN optional(call("get_string", <<c, string_id>>))
                      ELSE R(Ok(None), c))
        read(id) == IF ~IsOk(id) THEN R(id, c) ELSE of_id(id, MinusOne(id.val.val))
    IN  IF ~Lt(U64(k), size) THEN R(Decoded(<<>>, o), c)
        ELSE read(Uleb128_read(source, o))

DBG_FIRST_SPECIAL == 10

DBG_LINE_BASE == -4

DBG_LINE_RANGE == 15

\* one bytecode of the debug info state machine at offset o
DebugInfoBytecode_read(c, o) ==
    LET local(u, sig_idx) ==
            Decoded([op |-> "StartLocal", register_num |-> u.val.val[1],
                     name_idx |-> MinusOne(u.val.val[2]),
                     type_idx |-> MinusOne(u.val.val[3]), sig_idx |-> sig_idx],
                    u.val.next)
        file(u, s) ==
            R(IF ~IsOk(s.out) THEN s.out
              ELSE Decoded([op |-> "SetFile", val |-> s.out.val], u.val.next),
              s.cache)
        line(s1) ==
            R(IF ~IsOk(s1) THEN s1
              ELSE Decoded([op |-> "AdvanceLine", val |-> s1.val.val], s1.val.next),
              c)
        operands(opcode, u) ==
            IF ~IsOk(u) THEN R(u, c)
            ELSE IF opcode \in {1, 5, 6}
                 THEN R(Decoded([op |-> CASE opcode = 1 -> "AdvancePc"
                                          [] opcode = 5 -> "EndLocal"
                                          [] opcode = 6 -> "RestartLocal",
                                 val |-> u.val.val[1]], u.val.next), c)
            ELSE IF opcode = 9 THEN file(u, call("get_string", <<c, MinusOne(u.val.val[1])>>))
            ELSE IF opcode = 3 THEN R(local(u, None), c)
            ELSE R(local(u, Some(MinusOne(u.val.val[4]))), c)
        special(adjusted_opcode) ==
            R(Decoded([op |-> "Special",
                       line_off |-> DBG_LINE_BASE + (adjusted_opcode % DBG_LINE_RANGE),
                       address_off |-> adjusted_opcode \div DBG_LINE_RANGE],
                      o + 1), c)
        code(opcode) ==
            IF ~IsOk(opcode) THEN R(opcode, c)
            ELSE IF opcode.val = 0 THEN R(Decoded([op |-> "EndSequence"], o + 1), c)
            ELSE IF opcode.val \in {7, 8}
                 THEN R(Decoded([op |-> IF opcode.val = 7 THEN "SetPrologueEnd"
                                        ELSE "SetEpilogueBegin"], o + 1), c)
            ELSE IF opcode.val >= DBG_FIRST_SPECIAL
                 THEN special(opcode.val - DBG_FIRST_SPECIAL)
            ELSE IF opcode.val = 2 THEN line(Sleb128_read(source, o + 1))
            ELSE operands(opcode.val,
                          Uleb128_reads(source, o + 1,
                                        CASE opcode.val = 3 -> 3
                                          [] opcode.val = 4 -> 4
                                          [] OTHER -> 1))
    IN  code(read_u8(source, o))

\* a bytecode loop that also ends at SetPrologueEnd
RECURSIVE debug_bytecodes_prologue(_, _)
debug_bytecodes_prologue(c, o) ==
    LET pushed(byte_code, rest) ==
            IF ~IsOk(rest.out) THEN rest
            ELSE R(Decoded(<<byte_code.out.val.val>> \o rest.out.val.val,
                           rest.out.val.next), rest.cache)
        read(byte_code) ==
            IF ~IsOk(byte_code.out) THEN byte_code
            ELSE IF byte_code.out.val.val.op \in {"EndSequence", "SetPrologueEnd"}
                 THEN R(Decoded(<<byte_code.out.val.val>>, byte_code.out.val.next),
                        byte_code.cache)
            ELSE pushed(byte_code,
                        debug_bytecodes_prologue(byte_code.cache, byte_code.out.val.next))
    IN  read(DebugInfoBytecode_read(c, o))

\* the bytecode loop of DebugInfoItem::try_from_ctx: up to and including
\* the first EndSequence
RECURSIVE debug_bytecodes(_, _)
debug_bytecodes(c, o) ==
    LET pushed(byte_code, rest) ==
            IF ~IsOk(rest.out) THEN rest
            ELSE R(Decoded(<<byte_code.out.val.val>> \o rest.out.val.val,
                           rest.out.val.next), rest.cache)
        read(byte_code) ==
            IF ~IsOk(byte_code.out) THEN byte_code
            ELSE IF byte_code.out.val.val.op = "EndSequence"
                 THEN R(Decoded(<<byte_code.out.val.val>>, byte_code.out.val.next),
                        byte_code.cache)
            ELSE pushed(byte_code,
                        debug_bytecodes(byte_code.cache, byte_code.out.val.next))
    IN  read(DebugInfoBytecode_read(c, o))

\* DebugInfoItem::try_from_ctx
DebugInfoItem_try_from_ctx(c, o) ==
    LET item(line_start, parameter_names, bytecodes) ==
            IF ~IsOk(bytecodes.out) THEN bytecodes
            ELSE R(Decoded([line_start      |-> line_start,
                            parameter_names |-> parameter_names.out.val.val,
                            bytecodes       |-> bytecodes.out.val.val],
                           bytecodes.out.val.next), bytecodes.cache)
        named(line_start, parameter_names) ==
            IF ~IsOk(parameter_names.out) THEN parameter_names
            ELSE item(line_start, parameter_names,
                      debug_bytecodes(parameter_names.cache,
                                      parameter_names.out.val.next))
        read(sizes) ==
            IF ~IsOk(sizes) THEN R(sizes, c)
            ELSE IF CapacityOverflow(sizes.val.val[2], ElemSize("DexString"))
                 THEN R(Panic, c)
            ELSE named(sizes.val.val[1],
                       debug_parameter_names(c, sizes.val.next, 0, sizes.val.val[2]))
    IN  read(Uleb128_reads(source, o, 2))

\* Dex::get_debug_info_item
get_debug_info_item(c, debug_info_off) ==
    IF data_section_panics THEN R(Panic, c)
    ELSE IF ~is_offset_in_data_section(debug_info_off)
         THEN R(Err("BadOffset", "DebugInfoItem offset not in data section"), c)
    ELSE call("pread_with", <<"DebugInfoItem", c, zext(debug_info_off, 4), <<>>>>)

\* EncodedTypeAddrPair::try_from_ctx
EncodedTypeAddrPair_try_from_ctx(o) ==
    LET pair(read) ==
            IF ~IsOk(read) THEN read
            ELSE Decoded([type_id |-> trunc(read.val.val[1], 2),
                          addr |-> read.val.val[2]], read.val.next)
    IN  pair(Uleb128_reads(source, o, 2))

\* a handler that has a catch-all only for a negative size
EncodedCatchHandler_try_from_ctx_negative(c, o) ==
    LET all(handlers, all_handler_addr) ==
            IF ~IsOk(all_handler_addr) THEN R(all_handler_addr, handlers.cache)
            ELSE R(Decoded([handlers |->
                               Append(handlers.out.val,
                                      [exception |-> [kind |-> "BaseException"],
                                       addr |-> all_handler_addr.val.val])],
                           all_handler_addr.val.next), handlers.cache)
        typed(size, type_addr_pairs, handlers) ==
            IF ~IsOk(handlers.out) THEN handlers
            ELSE IF IsNegative(size)
                 THEN all(handlers,
                          Uleb128_read(source, type_addr_pairs.out.val.next))
            ELSE R(Decoded([handlers |-> handlers.out.val],
                           type_addr_pairs.out.val.next), handlers.cache)
        paired(size, type_addr_pairs) ==
            IF ~IsOk(type_addr_pairs.out) THEN type_addr_pairs
            ELSE typed(size, type_addr_pairs,
                       call("collect", <<"CatchHandler", type_addr_pairs.cache,
                               type_addr_pairs.out.val.val, 1>>))
        sized(size, abs) ==
            IF abs.ovf /\ overflow_checks THEN R(Panic, c)
            ELSE paired(size.val.val,
                        call("try_gread_vec_with", <<"EncodedTypeAddrPair", c, size.val.next,
                                           abs.val, <<>>>>))
        read(size) == IF ~IsOk(size) THEN R(size, c) ELSE sized(size, Abs(size.val.val))
    IN  read(Sleb128_read(source, o))

\* EncodedCatchHandler::try_from_ctx: |size| typed handlers, and a
\* catch-all handler when size is not positive
EncodedCatchHandler_try_from_ctx(c, o) ==
    LET all(handlers, all_handler_addr) ==
            IF ~IsOk(all_handler_addr) THEN R(all_handler_addr, handlers.cache)
            ELSE R(Decoded([handlers |->
                               Append(handlers.out.val,
                                      [exception |-> [kind |-> "BaseException"],
                                       addr |-> all_handler_addr.val.val])],
                           all_handler_addr.val.next), handlers.cache)
        typed(size, type_addr_pairs, handlers) ==
            IF ~IsOk(handlers.out) THEN handlers
            ELSE IF IsNegative(size) \/ IsZero(size)
                 THEN all(handlers,
                          Uleb128_read(source, type_addr_pairs.out.val.next))
            ELSE R(Decoded([handlers |-> handlers.out.val],
                           type_addr_pairs.out.val.next), handlers.cache)
        paired(size, type_addr_pairs) ==
            IF ~IsOk(type_addr_pairs.out) THEN type_addr_pairs
            ELSE typed(size, type_addr_pairs,
                       call("collect", <<"CatchHandler", type_addr_pairs.cache,
                               type_addr_pairs.out.val.val, 1>>))
        sized(size, abs) ==
            IF abs.ovf /\ overflow_checks THEN R(Panic, c)
            ELSE paired(size.val.val,
                        call("try_gread_vec_with", <<"EncodedTypeAddrPair", c, size.val.next,
                                           abs.val, <<>>>>))
        read(size) == IF ~IsOk(size) THEN R(size, c) ELSE sized(size, Abs(size.val.val))
    IN  read(Sleb128_read(source, o))

\* the loop of EncodedCatchHandlers::try_from_ctx: handler k of size, each
\* paired with its offset from the start of the list at base
RECURSIVE catch_handlers(_, _, _, _, _)
catch_handlers(c, base, o, k, size) ==
    LET pushed(encoded_catch_handler, rest) ==
            IF ~IsOk(rest.out) THEN rest
            ELSE R(Decoded(<<[off |-> o - base,
                              handler |-> encoded_catch_handler.out.val.val]>>
                           \o rest.out.val.val, rest.out.val.next), rest.cache)
        read(encoded_catch_handler) ==
            IF ~IsOk(encoded_catch_handler.out) THEN encoded_catch_handler
            ELSE pushed(encoded_catch_handler,
                        catch_handlers(encoded_catch_handler.cache, base,
                                       encoded_catch_handler.out.val.next, k + 1,
                                       size))
    IN  IF ~Lt(U64(k), size) THEN R(Decoded(<<>>, o), c)
        ELSE read(call("gread", <<"EncodedCatchHandler", c, o, <<>>>>))

\* EncodedCatchHandlers::try_from_ctx
EncodedCatchHandlers_try_from_ctx(c, o) ==
    LET sized(encoded_handler_size) ==
            IF ~IsOk(encoded_handler_size) THEN R(encoded_handler_size, c)
            ELSE IF CapacityOverflow(encoded_handler_size.val.val,
                                     ElemSize("EncodedCatchHandler"))
                 THEN R(Panic, c)
            ELSE catch_handlers(c, o, encoded_handler_size.val.next, 0,
                                encoded_handler_size.val.val)
    IN  sized(Uleb128_read(source, o))

\* a find that counts the offsets from the end of the list's size
EncodedCatchHandlers_find_past_size(handlers, handler_off) ==
    LET idx == {i \in 1 .. Len(handlers) : handlers[i].off = handler_off + 1}
    IN  IF idx = {} THEN None
        ELSE Some(handlers[CHOOSE i \in idx : \A j \in idx : i <= j].handler)

\* EncodedCatchHandlers::find: the first handler at the offset
EncodedCatchHandlers_find(handlers, handler_off) ==
    LET idx == {i \in 1 .. Len(handlers) : handlers[i].off = handler_off}
    IN  IF idx = {} THEN None
        ELSE Some(handlers[CHOOSE i \in idx : \A j \in idx : i <= j].handler)

\* the try blocks of Tries::try_from_ctx joined with their handlers, up
\* to the first try item whose handler offset matches no handler
RECURSIVE try_catch_blocks(_, _, _)
try_catch_blocks(tries, handlers, k) ==
    LET pushed(encoded_handler, rest) ==
            IF ~IsOk(rest) THEN rest
            ELSE Ok(<<[start_addr     |-> tries[k].start_addr,
                       insn_count     |-> tries[k].insn_count,
                       catch_handlers |-> encoded_handler.val.handlers]>> \o rest.val)
        found(encoded_handler) ==
            IF ~encoded_handler.some THEN Err("InvalidId", "Invalid catch handler")
            ELSE pushed(encoded_handler, try_catch_blocks(tries, handlers, k + 1))
    IN  IF k > Len(tries) THEN Ok(<<>>)
        ELSE found(EncodedCatchHandlers_find(handlers, tries[k].handler_off))

\* Tries::try_from_ctx
Tries_try_from_ctx(c, o, tries_size) ==
    LET joined(encoded_catch_handlers, blocks) ==
            IF ~IsOk(blocks) THEN R(blocks, encoded_catch_handlers.cache)
            ELSE R(Decoded([try_catch_blocks |-> blocks.val],
                           encoded_catch_handlers.out.val.next),
                   encoded_catch_handlers.cache)
        handled(tries, encoded_catch_handlers) ==
            IF ~IsOk(encoded_catch_handlers.out) THEN encoded_catch_handlers
            ELSE joined(encoded_catch_handlers,
                        try_catch_blocks(tries.out.val.val,
                                         encoded_catch_handlers.out.val.val, 1))
        read(tries) ==
            IF ~IsOk(tries.out) THEN tries
            ELSE handled(tries, call("gread", <<"EncodedCatchHandlers", tries.cache,
                                      tries.out.val.next, <<>>>>))
    IN  read(call("try_gread_vec_with", <<"TryItem", c, o, tries_size, endian>>))

Tries_default == [try_catch_blocks |-> <<>>]

\* CodeItem::try_from_ctx
CodeItem_try_from_ctx(c, o) ==
    LET item(sizes, debug_info_item, insns, tries) ==
            IF ~IsOk(tries.out) THEN tries
            ELSE R(Decoded([registers_size  |-> sizes.registers_size,
                            debug_info_item |-> debug_info_item.out.val,
                            ins_size        |-> sizes.ins_size,
                            outs_size       |-> sizes.outs_size,
                            insns           |-> insns.out.val.val,
                            tries           |-> tries.out.val.val],
                           tries.out.val.next), tries.cache)
        tried(sizes, debug_info_item, insns, tries_off) ==
            item(sizes, debug_info_item, insns,
                 IF sizes.tries_size # 0
                 THEN call("gread", <<"Tries", insns.cache, tries_off, sizes.tries_size>>)
                 ELSE R(Decoded(Tries_default, tries_off), insns.cache))
        padded(sizes, debug_info_item, insns, padding) ==
            IF ~IsOk(padding.out) THEN padding
            ELSE tried(sizes, debug_info_item, insns, padding.out.val.next)
        coded(sizes, debug_info_item, insns_size, insns) ==
            IF ~IsOk(insns.out) THEN insns
            ELSE IF insns_size.val[1] % 2 # 0 /\ sizes.tries_size # 0
                 THEN padded(sizes, debug_info_item, insns,
                             call("gread", <<"ushort", insns.cache, insns.out.val.next, endian>>))
            ELSE tried(sizes, debug_info_item, insns, insns.out.val.next)
        sized(sizes, debug_info_item, insns_size) ==
            IF ~IsOk(insns_size) THEN R(insns_size, debug_info_item.cache)
            ELSE coded(sizes, debug_info_item, insns_size,
                       call("try_gread_vec_with", <<"ushort", debug_info_item.cache, o + 16,
                                          zext(insns_size.val, 4), endian>>))
        debugged(sizes, debug_info_item) ==
            IF ~IsOk(debug_info_item.out) THEN debug_info_item
            ELSE sized(sizes, debug_info_item, read_u32(source, o + 12, endian))
        optional(d) == R(IF IsOk(d.out) THEN Ok(Some(d.out.val)) ELSE d.out, d.cache)
        read(registers_size, ins_size, outs_size, tries_size, debug_info_off) ==
            IF ~IsOk(registers_size) THEN R(registers_size, c)
            ELSE IF ~IsOk(ins_size) THEN R(ins_size, c)
            ELSE IF ~IsOk(outs_size) THEN R(outs_size, c)
            ELSE IF ~IsOk(tries_size) THEN R(tries_size, c)
            ELSE IF ~IsOk(debug_info_off) THEN R(debug_info_off, c)
            ELSE debugged([registers_size |-> registers_size.val,
                           ins_size       |-> ins_size.val,
                           outs_size      |-> outs_size.val,
                           tries_size     |-> tries_size.val],
                          IF ~IsZero(debug_info_off.val)
                          THEN optional(call("get_debug_info_item", <<c, debug_info_off.val>>))
                          ELSE R(Ok(None), c))
    IN  read(read_u16(source, o, endian), read_u16(source, o + 2, endian),
             read_u16(source, o + 4, endian), read_u16(source, o + 6, endian),
             read_u32(source, o + 8, endian))

\* Dex::get_code_item: the offset is a ulong, the range check is made on
\* its low 32 bits
get_code_item(c, code_off) ==
    LET optional(code) ==
            R(IF IsOk(code.out) THEN Ok(Some(code.out.val)) ELSE code.out, code.cache)
    IN  IF IsZero(code_off) THEN R(Ok(None), c)
        ELSE IF data_section_panics THEN R(Panic, c)
        ELSE IF ~is_offset_in_data_section(trunc(code_off, 2))
             THEN R(Err("BadOffset", "CodeItem offset not in data section"), c)
        ELSE optional(call("pread_with", <<"CodeItem", c, code_off, <<>>>>))

\* source.gread_with(offset, ctx) for the type named by tag
gread(tag, c, o, ctx) ==
    LET plain(r) == R(r, c)
        number(r, size) == R(IF IsOk(r) THEN Decoded(r.val, o + size) ELSE r, c)
        try_item(start_addr, insn_count, handler_off) ==
            R(IF ~IsOk(start_addr) THEN start_addr
              ELSE IF ~IsOk(insn_count) THEN insn_count
              ELSE IF ~IsOk(handler_off) THEN handler_off
              ELSE Decoded([start_addr  |-> start_addr.val,
                            insn_count  |-> insn_count.val,
                            handler_off |-> handler_off.val], o + 8), c)
    IN  IF o >= Len(source) THEN R(ScrollErr, c)
        ELSE CASE tag = "ushort" -> number(read_u16(source, o, ctx), 2)
               [] tag = "uint" -> number(read_u32(source, o, ctx), 4)
               [] tag = "TryItem" ->
                    try_item(read_u32(source, o, ctx), read_u16(source, o + 4, ctx),
                             read_u16(source, o + 6, ctx))
               [] tag = "EncodedTypeAddrPair" -> plain(EncodedTypeAddrPair_try_from_ctx(o))
               [] tag = "EncodedValue" -> EncodedValue_try_from_ctx(c, o)
               [] tag = "EncodedArray" -> EncodedArray_try_from_ctx(c, o)
               [] tag = "EncodedAnnotation" -> EncodedAnnotation_try_from_ctx(c, o)
               [] tag = "AnnotationElement" -> AnnotationElement_try_from_ctx(c, o)
               [] tag = "AnnotationItem" -> AnnotationItem_try_from_ctx(c, o)
               [] tag = "AnnotationSetItem" -> AnnotationSetItem_try_from_ctx(c, o)
               [] tag = "AnnotationSetRefList" -> AnnotationSetRefList_try_from_ctx(c, o)
               [] tag = "FieldAnnotation" -> ItemAnnotation_try_from_ctx(c, o, "field_idx")
               [] tag = "MethodAnnotation" -> ItemAnnotation_try_from_ctx(c, o, "method_idx")
               [] tag = "ParameterAnnotation" -> ParameterAnnotation_try_from_ctx(c, o)
               [] tag = "AnnotationsDirectoryItem" ->
                    AnnotationsDirectoryItem_try_from_ctx(c, o)
               [] tag = "DebugInfoItem" -> DebugInfoItem_try_from_ctx(c, o)
               [] tag = "EncodedCatchHandler" -> EncodedCatchHandler_try_from_ctx(c, o)
               [] tag = "EncodedCatchHandlers" -> EncodedCatchHandlers_try_from_ctx(c, o)
               [] tag = "Tries" -> Tries_try_from_ctx(c, o, U64(ctx))
               [] tag = "CodeItem" -> CodeItem_try_from_ctx(c, o)

\* for _ in k..cap { vec.push(source.gread_with(offset, ctx)?) }, vec the
\* items pushed so far
gread_loop(tag, c, o, k, cap, ctx, vec) ==
    LET read(item) ==
            IF ~IsOk(item.out) THEN item
            ELSE gread_loop(tag, item.cache, item.out.val.next, k + 1, cap, ctx,
                            Append(vec, item.out.val.val))
    IN  IF ~Lt(U64(k), cap) THEN R(Decoded(vec, o), c)
        ELSE read(call("gread", <<tag, c, o, ctx>>))

collect(fn, c, args, k) ==
    LET pushed(one, rest) ==
            IF ~IsOk(rest.out) THEN rest
            ELSE R(Ok(<<one.out.val>> \o rest.out.val), rest.cache)
        mapped(one) ==
            IF ~IsOk(one.out) THEN one
            ELSE pushed(one, call("collect", <<fn, one.cache, args, k + 1>>))
        handler(t) ==
            R(IF ~IsOk(t.out) THEN t.out
              ELSE Ok([exception |-> [kind |-> "Ty", type |-> t.out.val],
                       addr      |-> args[k].addr]), t.cache)
    IN  IF k > Len(args) THEN R(Ok(<<>>), c)
        ELSE mapped(CASE fn = "get_annotation_item" -> call("get_annotation_item", <<c, args[k]>>)
                      [] fn = "get_annotation_set_item" ->
                           call("get_annotation_set_item", <<c, args[k]>>)
                      [] fn = "get_type" -> call("get_type", <<c, U32(args[k])>>)
                      [] fn = "CatchHandler" -> handler(call("get_type", <<c, args[k].type_id>>)))

(***************************************************************************)
(* Field, Method and Class (field.rs, method.rs, class.rs).                *)
(***************************************************************************)
ClassAccessFlags == {1, 2, 4, 8, 16, 512, 1024, 4096, 8192, 16384}

FieldAccessFlags == {1, 2, 4, 8, 16, 64, 128, 4096, 16384}

MethodAccessFlags ==
    {1, 2, 4, 8, 16, 32, 64, 128, 256, 1024, 2048, 4096, 65536, 131072}

\* bit b of a word
Bit(x, b) == (x[(b \div 16) + 1] \div (2 ^ (b % 16))) % 2

\* a from_bits that looks at the low 32 bits only
from_bits_low_ok(bits, flags) ==
    \A b \in 0 .. (16 * Len(bits) - 1) :
        (Bit(bits, b) = 1 /\ b < 32) => (b < 31 /\ 2 ^ b \in flags)

\* AccessFlags::from_bits(bits).is_some(): no bit outside the named flags
from_bits_ok(bits, flags) ==
    \A b \in 0 .. (16 * Len(bits) - 1) :
        Bit(bits, b) = 1 => (b < 31 /\ 2 ^ b \in flags)

\* Field::try_from_dex
Field_try_from_dex(c, encoded_field, initial_value, annotations) ==
    LET field(field_item, name, jtype) ==
            IF ~IsOk(jtype.out) THEN jtype
            ELSE IF ~from_bits_ok(encoded_field.access_flags, FieldAccessFlags)
                 THEN R(Err("InvalidId", "Invalid access flags when loading field"),
                        jtype.cache)
            ELSE R(Ok([name          |-> name.out.val,
                       jtype         |-> jtype.out.val,
                       class         |-> U32(field_item.val.class_idx),
                       access_flags  |-> encoded_field.access_flags,
                       initial_value |-> initial_value,
                       annotations   |-> annotations,
                       id            |-> encoded_field.id]), jtype.cache)
        named(field_item, name) ==
            IF ~IsOk(name.out) THEN name
            ELSE field(field_item, name,
                       call("get_type", <<name.cache, U32(field_item.val.type_idx)>>))
        read(field_item) ==
            IF ~IsOk(field_item) THEN R(field_item, c)
            ELSE named(field_item, call("get_string", <<c, field_item.val.name_idx>>))
    IN  read(call("get_field_item", <<encoded_field.id>>))

\* the parameter types of Method::try_from_dex
Method_params(c, params_off) ==
    LET typed(type_ids) ==
            IF ~IsOk(type_ids.out) THEN type_ids
            ELSE call("collect", <<"get_type", type_ids.cache, type_ids.out.val.val, 1>>)
        sized(len) ==
            IF ~IsOk(len) THEN R(len, c)
            ELSE typed(call("try_gread_vec_with", <<"ushort", c, ToNat(params_off) + 4,
                                          zext(len.val, 4), endian>>))
    IN  IF IsZero(params_off) THEN R(Ok(<<>>), c)
        ELSE IF data_section_panics THEN R(Panic, c)
        ELSE IF ~is_offset_in_data_section(params_off)
             THEN R(Err("BadOffset", "Params offset not in data section"), c)
        ELSE sized(pread_u32(source, zext(params_off, 4), endian))

\* Method::try_from_dex
Method_try_from_dex(c, encoded_method, annotations, param_annotations) ==
    LET method(name, loaded, class) ==
            IF ~IsOk(class.out) THEN class
            ELSE IF ~from_bits_ok(encoded_method.access_flags, MethodAccessFlags)
                 THEN R(Err("InvalidId", "Invalid access flags for method"),
                        class.cache)
            ELSE R(Ok([name              |-> name.out.val,
                       class             |-> class.out.val,
                       access_flags      |-> encoded_method.access_flags,
                       shorty            |-> loaded.shorty,
                       return_type       |-> loaded.return_type,
                       params            |-> loaded.params,
                       code              |-> loaded.code,
                       annotations       |-> annotations,
                       param_annotations |-> param_annotations]), class.cache)
        coded(method_item, name, shorty, return_type, params, code) ==
            IF ~IsOk(code.out) THEN code
            ELSE method(name,
                        [shorty |-> shorty.out.val, return_type |-> return_type.out.val,
                         params |-> params.out.val, code |-> code.out.val],
                        call("get_type", <<code.cache, U32(method_item.val.class_idx)>>))
        with_params(method_item, name, shorty, return_type, params) ==
            IF ~IsOk(params.out) THEN params
            ELSE coded(method_item, name, shorty, return_type, params,
                       call("get_code_item", <<params.cache, encoded_method.code_offset>>))
        returning(method_item, name, proto_item, shorty, return_type) ==
            IF ~IsOk(return_type.out) THEN return_type
            ELSE with_params(method_item, name, shorty, return_type,
                             call("Method_params", <<return_type.cache,
                                           proto_item.val.params_off>>))
        short(method_item, name, proto_item, shorty) ==
            IF ~IsOk(shorty.out) THEN shorty
            ELSE returning(method_item, name, proto_item, shorty,
                           call("get_type", <<shorty.cache, proto_item.val.return_type>>))
        proto(method_item, name, proto_item) ==
            IF ~IsOk(proto_item) THEN R(proto_item, name.cache)
            ELSE short(method_item, name, proto_item,
                       call("get_string", <<name.cache, proto_item.val.shorty>>))
        named(method_item, name) ==
            IF ~IsOk(name.out) THEN name
            ELSE proto(method_item, name,
                       call("get_proto_item", <<U64(method_item.val.proto_idx)>>))
        read(method_item) ==
            IF ~IsOk(method_item) THEN R(method_item, c)
            ELSE named(method_item, call("get_string", <<c, method_item.val.name_idx>>))
    IN  read(call("get_method_item", <<encoded_method.id>>))

\* [T]::binary_search_by_key over the idx of annotation entries: the
\* position of an entry with the key, or None
RECURSIVE bsearch_from(_, _, _, _)
bsearch_from(list, key, base, size) ==
    IF size > 1
    THEN LET half == size \div 2
             mid == base + half
         IN  bsearch_from(list, key,
                          IF Lt(key, list[mid + 1].idx) THEN base ELSE mid,
                          size - half)
    ELSE IF list[base + 1].idx = key THEN Some(base + 1) ELSE None

binary_search_by_key(list, key) ==
    IF list = <<>> THEN None ELSE bsearch_from(list, key, 0, Len(list))

\* a lookup that leaves the entry in the list and starts from the entry
\* after the last one taken
TakeAnnotations_next(list, key, default) ==
    IF list = <<>> THEN [annotations |-> default, list |-> list]
    ELSE [annotations |-> list[1].annotations, list |-> Tail(list)]

\* the annotations of an item taken out of a list of annotation entries:
\* binary_search_by_key(..).map(|i| list.remove(i).annotations)
\*     .unwrap_or_else(Default::default)
TakeAnnotations(list, key, default) ==
    LET taken(found) ==
            IF found.some
            THEN [annotations |-> list[found.val].annotations,
                  list        |-> Without(list, found.val)]
            ELSE [annotations |-> default, list |-> list]
    IN  taken(binary_search_by_key(list, key))

\* fields that take the static values left whatever list they are in
class_fields_any(c, items, k, static_values, field_annotations, is_static) ==
    LET pushed(field, rest) ==
            IF ~IsOk(rest.out) THEN rest
            ELSE R(Ok([rest.out.val EXCEPT !.fields = <<field.out.val>> \o @]),
                   rest.cache)
        loaded(field, values_left, taken) ==
            IF ~IsOk(field.out) THEN field
            ELSE pushed(field, call("class_fields", <<field.cache, items, k + 1, values_left,
                                            taken.list, is_static>>))
        annotated(initial_value, values_left, taken) ==
            loaded(call("Field_try_from_dex", <<c, items[k], initial_value, taken.annotations>>),
                   values_left, taken)
        popped(initial_value, values_left) ==
            annotated(initial_value, values_left,
                      TakeAnnotations(field_annotations, items[k].id,
                                      AnnotationSetItem_default))
    IN  IF k > Len(items)
        THEN R(Ok([fields |-> <<>>, static_values |-> static_values,
                   field_annotations |-> field_annotations]), c)
        ELSE IF static_values # <<>>
             THEN popped(Some(Head(static_values)), Tail(static_values))
        ELSE popped(None, static_values)

\* try_from_item!(c.static_fields / c.instance_fields, ..): the fields from
\* item k on; a static field takes the next static value
RECURSIVE class_fields(_, _, _, _, _, _)
class_fields(c, items, k, static_values, field_annotations, is_static) ==
    LET pushed(field, rest) ==
            IF ~IsOk(rest.out) THEN rest
            ELSE R(Ok([rest.out.val EXCEPT !.fields = <<field.out.val>> \o @]),
                   rest.cache)
        loaded(field, values_left, taken) ==
            IF ~IsOk(field.out) THEN field
            ELSE pushed(field, call("class_fields", <<field.cache, items, k + 1, values_left,
                                            taken.list, is_static>>))
        annotated(initial_value, values_left, taken) ==
            loaded(call("Field_try_from_dex", <<c, items[k], initial_value, taken.annotations>>),
                   values_left, taken)
        popped(initial_value, values_left) ==
            annotated(initial_value, values_left,
                      TakeAnnotations(field_annotations, items[k].id,
                                      AnnotationSetItem_default))
    IN  IF k > Len(items)
        THEN R(Ok([fields |-> <<>>, static_values |-> static_values,
                   field_annotations |-> field_annotations]), c)
        ELSE IF is_static /\ static_values # <<>>
             THEN popped(Some(Head(static_values)), Tail(static_values))
        ELSE popped(None, static_values)

\* try_from_item!(c.direct_methods / c.virtual_methods, ..)
RECURSIVE class_methods(_, _, _, _, _)
class_methods(c, items, k, method_annotations, parameter_annotations) ==
    LET pushed(method, rest) ==
            IF ~IsOk(rest.out) THEN rest
            ELSE R(Ok([rest.out.val EXCEPT !.methods = <<method.out.val>> \o @]),
                   rest.cache)
        loaded(method, m, p) ==
            IF ~IsOk(method.out) THEN method
            ELSE pushed(method, call("class_methods", <<method.cache, items, k + 1, m.list,
                                              p.list>>))
        annotated(m, p) ==
            loaded(call("Method_try_from_dex", <<c, items[k], m.annotations, p.annotations>>),
                   m, p)
    IN  IF k > Len(items)
        THEN R(Ok([methods |-> <<>>, method_annotations |-> method_annotations,
                   parameter_annotations |-> parameter_annotations]), c)
        ELSE annotated(TakeAnnotations(method_annotations, items[k].id,
                                       AnnotationSetItem_default),
                       TakeAnnotations(parameter_annotations, items[k].id,
                                       AnnotationSetRefList_default))

\* an Option<EncodedItemArray> as the items try_from_item! goes through
Items(array) == IF array.some THEN array.val ELSE <<>>

\* the fields and methods of Class::try_from_dex from a ClassDataItem
class_members(c, class_data, static_values, directory) ==
    LET members(fields, direct_methods, virtual_methods) ==
            IF ~IsOk(virtual_methods.out) THEN virtual_methods
            ELSE R(Ok([static_fields   |-> fields.static_fields,
                       instance_fields |-> fields.instance_fields,
                       direct_methods  |-> direct_methods.out.val.methods,
                       virtual_methods |-> virtual_methods.out.val.methods]),
                   virtual_methods.cache)
        direct(fields, direct_methods) ==
            IF ~IsOk(direct_methods.out) THEN direct_methods
            ELSE members(fields, direct_methods,
                         call("class_methods", <<direct_methods.cache,
                                       Items(class_data.virtual_methods), 1,
                                       direct_methods.out.val.method_annotations,
                                       direct_methods.out.val.parameter_annotations>>))
        instance(static_fields, instance_fields) ==
            IF ~IsOk(instance_fields.out) THEN instance_fields
            ELSE direct([static_fields   |-> static_fields.out.val.fields,
                         instance_fields |-> instance_fields.out.val.fields],
                        call("class_methods", <<instance_fields.cache,
                                      Items(class_data.direct_methods), 1,
                                      directory.method_annotations,
                                      directory.parameter_annotations>>))
        static(static_fields) ==
            IF ~IsOk(static_fields.out) THEN static_fields
            ELSE instance(static_fields,
                          call("class_fields", <<static_fields.cache,
                                       Items(class_data.instance_fields), 1,
                                       static_fields.out.val.static_values,
                                       static_fields.out.val.field_annotations,
                                       FALSE>>))
    IN  static(call("class_fields", <<c, Items(class_data.static_fields), 1, static_values,
                            directory.field_annotations, TRUE>>))

NoMembers == [static_fields |-> <<>>, instance_fields |-> <<>>,
              direct_methods |-> <<>>, virtual_methods |-> <<>>]

\* a class load that takes class data it cannot decode for no class data
Class_try_from_dex_lenient(c, class_def) ==
    LET class(jtype, directory, members, interfaces, source_file) ==
            IF ~IsOk(source_file.out) THEN source_file
            ELSE R(Ok([id              |-> class_def.class_idx,
                       jtype           |-> jtype.out.val,
                       super_class     |-> IF class_def.superclass_idx = NO_INDEX
                                           THEN Some(class_def.superclass_idx)
                                           ELSE None,
                       interfaces      |-> interfaces.out.val,
                       access_flags    |-> class_def.access_flags,
                       source_file     |-> source_file.out.val,
                       static_fields   |-> members.out.val.static_fields,
                       instance_fields |-> members.out.val.instance_fields,
                       direct_methods  |-> members.out.val.direct_methods,
                       virtual_methods |-> members.out.val.virtual_methods,
                       annotations     |-> directory.out.val.class_annotations]),
                   source_file.cache)
        implementing(jtype, directory, members, interfaces) ==
            IF ~IsOk(interfaces.out) THEN interfaces
            ELSE IF ~from_bits_ok(class_def.access_flags, ClassAccessFlags)
                 THEN R(Err("InvalidId", "Invalid Access flags in class"),
                        interfaces.cache)
            ELSE class(jtype, directory, members, interfaces,
                       call("get_source_file", <<interfaces.cache, class_def.source_file_idx>>))
        with_members(jtype, directory, members) ==
            IF ~IsOk(members.out) THEN members
            ELSE implementing(jtype, directory, members,
                              call("get_interfaces", <<members.cache, class_def.interfaces_off>>))
        with_data(jtype, directory, static_values, class_data) ==
            with_members(jtype, directory,
                         IF class_data.val.some
                         THEN call("class_members", <<static_values.cache, class_data.val.val,
                                            static_values.out.val.values,
                                            directory.out.val>>)
                         ELSE R(Ok(NoMembers), static_values.cache))
        decoded(jtype, directory, static_values, class_data) ==
            with_data(jtype, directory, static_values,
                      IF IsOk(class_data) THEN class_data ELSE Ok(None))
        with_values(jtype, directory, static_values) ==
            IF ~IsOk(static_values.out) THEN static_values
            ELSE decoded(jtype, directory, static_values,
                         call("get_class_data", <<class_def.class_data_off>>))
        annotated(jtype, directory) ==
            IF ~IsOk(directory.out) THEN directory
            ELSE with_values(jtype, directory,
                             call("get_static_values", <<directory.cache,
                                               class_def.static_values_off>>))
        typed(jtype) ==
            IF ~IsOk(jtype.out) THEN jtype
            ELSE annotated(jtype,
                           call("get_annotations_directory_item", <<jtype.cache,
                                                          class_def.annotations_off>>))
    IN  typed(call("get_type", <<c, class_def.class_idx>>))

\* Class::try_from_dex
Class_try_from_dex(c, class_def) ==
    LET class(jtype, directory, members, interfaces, source_file) ==
            IF ~IsOk(source_file.out) THEN source_file
            ELSE R(Ok([id              |-> class_def.class_idx,
                       jtype           |-> jtype.out.val,
                       super_class     |-> IF class_def.superclass_idx = NO_INDEX
                                           THEN Some(class_def.superclass_idx)
                                           ELSE None,
                       interfaces      |-> interfaces.out.val,
                       access_flags    |-> class_def.access_flags,
                       source_file     |-> source_file.out.val,
                       static_fields   |-> members.out.val.static_fields,
                       instance_fields |-> members.out.val.instance_fields,
                       direct_methods  |-> members.out.val.direct_methods,
                       virtual_methods |-> members.out.val.virtual_methods,
                       annotations     |-> directory.out.val.class_annotations]),
                   source_file.cache)
        implementing(jtype, directory, members, interfaces) ==
            IF ~IsOk(interfaces.out) THEN interfaces
            ELSE IF ~from_bits_ok(class_def.access_flags, ClassAccessFlags)
                 THEN R(Err("InvalidId", "Invalid Access flags in class"),
                        interfaces.cache)
            ELSE class(jtype, directory, members, interfaces,
                       call("get_source_file", <<interfaces.cache, class_def.source_file_idx>>))
        with_members(jtype, directory, members) ==
            IF ~IsOk(members.out) THEN members
            ELSE implementing(jtype, directory, members,
                              call("get_interfaces", <<members.cache, class_def.interfaces_off>>))
        with_data(jtype, directory, static_values, class_data) ==
            IF ~IsOk(class_data) THEN R(class_data, static_values.cache)
            ELSE with_members(jtype, directory,
                              IF class_data.val.some
                              THEN call("class_members", <<static_values.cache,
                                                 class_data.val.val,
                                                 static_values.out.val.values,
                                                 directory.out.val>>)
                              ELSE R(Ok(NoMembers), static_values.cache))
        with_values(jtype, directory, static_values) ==
            IF ~IsOk(static_values.out) THEN static_values
            ELSE with_data(jtype, directory, static_values,
                           call("get_class_data", <<class_def.class_data_off>>))
        annotated(jtype, directory) ==
            IF ~IsOk(directory.out) THEN directory
            ELSE with_values(jtype, directory,
                             call("get_static_values", <<directory.cache,
                                               class_def.static_values_off>>))
        typed(jtype) ==
            IF ~IsOk(jtype.out) THEN jtype
            ELSE annotated(jtype,
                           call("get_annotations_directory_item", <<jtype.cache,
                                                          class_def.annotations_off>>))
    IN  typed(call("get_type", <<c, class_def.class_idx>>))

ClassDefItemSize == 32

\* ClassDefItem: eight uints read one after the other
ClassDefItem_pread(o) ==
    IF o >= Len(source) \/ Len(source) - o < ClassDefItemSize THEN ScrollErr
    ELSE Ok([class_idx         |-> Field32(source, o, endian),
             access_flags      |-> Field32(source, o + 4, endian),
             superclass_idx    |-> Field32(source, o + 8, endian),
             interfaces_off    |-> Field32(source, o + 12, endian),
             source_file_idx   |-> Field32(source, o + 16, endian),
             annotations_off   |-> Field32(source, o + 20, endian),
             class_data_off    |-> Field32(source, o + 24, endian),
             static_values_off |-> Field32(source, o + 28, endian)])

\* Dex::class_defs: ClassDefItemIter::new
ClassDefItemIter_new ==
    [offset |-> zext(header.class_defs_off, 4), len |-> header.class_defs_size]

\* an iterator that stays on the first record
ClassDefItemIter_next_first(it) ==
    LET stepped(class_item) ==
            [item |-> Some(class_item),
             iter |-> [offset |-> it.offset, len |-> Sub(it.len, One(2)).val]]
    IN  IF IsZero(it.len) THEN [item |-> None, iter |-> it]
        ELSE stepped(IF ~FitsNat(it.offset) THEN ScrollErr
                     ELSE ClassDefItem_pread(ToNat(it.offset)))

\* ClassDefItemIter::next: the item and the iterator after the call; the
\* offset moves on only past an item that was read
ClassDefItemIter_next(it) ==
    LET stepped(class_item) ==
            [item |-> Some(class_item),
             iter |-> [offset |-> IF IsOk(class_item)
                                  THEN Add(it.offset, U64(ClassDefItemSize)).val
                                  ELSE it.offset,
                       len    |-> Sub(it.len, One(2)).val]]
    IN  IF IsZero(it.len) THEN [item |-> None, iter |-> it]
        ELSE stepped(IF ~FitsNat(it.offset) THEN ScrollErr
                     ELSE ClassDefItem_pread(ToNat(it.offset)))

\* the loop of Dex::find_class_by_type over the class_defs iterator
RECURSIVE find_class_from(_, _, _)
find_class_from(c, it, type_id) ==
    LET optional(class) ==
            R(IF IsOk(class.out) THEN Ok(Some(class.out.val)) ELSE class.out,
              class.cache)
        next(step) ==
            IF ~step.item.some THEN R(Ok(None), c)
            ELSE IF ~IsOk(step.item.val) THEN R(step.item.val, c)
            ELSE IF step.item.val.val.class_idx = type_id
                 THEN optional(call("Class_try_from_dex", <<c, step.item.val.val>>))
            ELSE call("find_class_from", <<c, step.iter, type_id>>)
    IN  next(ClassDefItemIter_next(it))

\* Dex::find_class_by_type
find_class_by_type(c, type_id) == call("find_class_from", <<c, ClassDefItemIter_new, type_id>>)

\* Dex::find_class_by_name
find_class_by_name(c, type_descriptor) ==
    LET typed(type_id) ==
            IF ~IsOk(type_id) THEN R(type_id, c)
            ELSE IF ~type_id.val.some THEN R(Ok(None), c)
            ELSE call("find_class_by_type", <<c, type_id.val.val>>)
        found(string_id) ==
            IF ~IsOk(string_id) THEN R(string_id, c)
            ELSE IF ~string_id.val.some THEN R(Ok(None), c)
            ELSE typed(call("get_type_id", <<string_id.val.val>>))
    IN  found(call("Strings_get_id", <<type_descriptor>>))

\* the methods of Dex and the constructors that take a Dex, by name:
\* call(fn, args) is fn applied to args
call(fn, args) ==
    CASE fn = "Strings_get" -> Strings_get(args[1], args[2])
      [] fn = "get_string" -> get_string(args[1], args[2])
      [] fn = "Strings_get_id" -> Strings_get_id(args[1])
      [] fn = "get_type" -> get_type(args[1], args[2])
      [] fn = "get_type_id" -> get_type_id(args[1])
      [] fn = "get_type_from_descriptor" -> get_type_from_descriptor(args[1], args[2])
      [] fn = "get_field_item" -> get_field_item(args[1])
      [] fn = "get_proto_item" -> get_proto_item(args[1])
      [] fn = "get_method_item" -> get_method_item(args[1])
      [] fn = "get_method_handle_item" -> get_method_handle_item(args[1])
      [] fn = "try_gread_vec_with" -> try_gread_vec_with(args[1], args[2], args[3], args[4], args[5])
      [] fn = "pread_with" -> pread_with(args[1], args[2], args[3], args[4])
      [] fn = "get_annotation_item" -> get_annotation_item(args[1], args[2])
      [] fn = "get_annotation_set_item" -> get_annotation_set_item(args[1], args[2])
      [] fn = "get_annotation_set_ref_list" -> get_annotation_set_ref_list(args[1], args[2])
      [] fn = "get_annotations_directory_item" -> get_annotations_directory_item(args[1], args[2])
      [] fn = "get_static_values" -> get_static_values(args[1], args[2])
      [] fn = "get_interfaces" -> get_interfaces(args[1], args[2])
      [] fn = "get_source_file" -> get_source_file(args[1], args[2])
      [] fn = "get_class_data" -> get_class_data(args[1])
      [] fn = "get_debug_info_item" -> get_debug_info_item(args[1], args[2])
      [] fn = "get_code_item" -> get_code_item(args[1], args[2])
      [] fn = "Field_try_from_dex" -> Field_try_from_dex(args[1], args[2], args[3], args[4])
      [] fn = "Method_params" -> Method_params(args[1], args[2])
      [] fn = "Method_try_from_dex" -> Method_try_from_dex(args[1], args[2], args[3], args[4])
      [] fn = "class_members" -> class_members(args[1], args[2], args[3], args[4])
      [] fn = "Class_try_from_dex" -> Class_try_from_dex(args[1], args[2])
      [] fn = "find_class_by_type" -> find_class_by_type(args[1], args[2])
      [] fn = "find_class_by_name" -> find_class_by_name(args[1], args[2])
      [] fn = "Section_binary_search" -> Section_binary_search(args[1], args[2], args[3])
      [] fn = "DexString_pread" -> DexString_pread(args[1], args[2])
      [] fn = "gread" -> gread(args[1], args[2], args[3], args[4])
      [] fn = "collect" -> collect(args[1], args[2], args[3], args[4])
      [] fn = "class_fields" -> class_fields(args[1], args[2], args[3], args[4], args[5], args[6])
      [] fn = "class_methods" -> class_methods(args[1], args[2], args[3], args[4], args[5])
      [] fn = "find_class_from" -> find_class_from(args[1], args[2], args[3])

(***************************************************************************)
(* Input buffers.  A buffer is laid out as the DEX format prescribes:      *)
(* header, string_ids, type_ids, proto_ids, field_ids, method_ids,         *)
(* class_defs, then the data section.  The checksum field holds the        *)
(* Adler-32 of bytes[12..].                                                *)
(***************************************************************************)
RECURSIVE Flatten(_)
Flatten(ss) == IF ss = <<>> THEN <<>> ELSE Head(ss) \o Flatten(Tail(ss))

Bytes16(n, en) ==
    IF en = "LE" THEN <<n % 256, n \div 256>> ELSE <<n \div 256, n % 256>>

Bytes32(w, en) ==
    IF en = "LE" THEN Bytes16(w[1], en) \o Bytes16(w[2], en)
    ELSE Bytes16(w[2], en) \o Bytes16(w[1], en)

Nat32(n, en) == Bytes32(U32(n), en)

DexMagic == <<100, 101, 120, 10, 48, 51, 53, 0>>

EndianTag(en) ==
    IF en = "LE" THEN REVERSE_ENDIAN_CONSTANT ELSE ENDIAN_CONSTANT

\* the 100 header bytes that follow the checksum, from the header's fields
HeaderTail(h, en) ==
    Zeros(20) \o Bytes32(h.file_size, en) \o Nat32(HeaderSize, en)
    \o EndianTag(en) \o Nat32(0, en) \o Nat32(0, en)
    \o Bytes32(h.map_off, en)
    \o Bytes32(h.string_ids_size, en) \o Bytes32(h.string_ids_off, en)
    \o Bytes32(h.type_ids_size, en) \o Bytes32(h.type_ids_off, en)
    \o Bytes32(h.proto_ids_size, en) \o Bytes32(h.proto_ids_off, en)
    \o Bytes32(h.field_ids_size, en) \o Bytes32(h.field_ids_off, en)
    \o Bytes32(h.method_ids_size, en) \o Bytes32(h.method_ids_off, en)
    \o Bytes32(h.class_defs_size, en) \o Bytes32(h.class_defs_off, en)
    \o Bytes32(h.data_size, en) \o Bytes32(h.data_off, en)

\* a whole buffer: the header for fields h, then body, with its checksum
WithHeader(h, body, en) ==
    LET tail == HeaderTail(h, en) \o body
        sum  == adler32(tail, 0)
    IN  DexMagic \o Bytes32(sum, en) \o tail

\* string_data_item: the length in UTF-16 units, the MUTF-8 bytes, a NUL
Utf16Len(str) == Len(str) + Cardinality({i \in 1 .. Len(str) : str[i] >= 65536})

StringData(str) == <<Utf16Len(str)>> \o to_java_cesu8(str) \o <<0>>

\* class_def_item from eight uints
ClassDefBytes(d, en) ==
    Bytes32(d.class_idx, en) \o Bytes32(d.access_flags, en)
    \o Bytes32(d.superclass_idx, en) \o Bytes32(d.interfaces_off, en)
    \o Bytes32(d.source_file_idx, en) \o Bytes32(d.annotations_off, en)
    \o Bytes32(d.class_data_off, en) \o Bytes32(d.static_values_off, en)

\* a map_list of one entry, the map_list itself
MapListBytes(map_off, en) ==
    Nat32(1, en) \o Bytes16(4096, en) \o Bytes16(0, en)
    \o Nat32(1, en) \o Nat32(map_off, en)

RECURSIVE SumLen(_)
SumLen(ss) == IF ss = <<>> THEN 0 ELSE Len(Head(ss)) + SumLen(Tail(ss))

\* the offset of item i of a run of items that starts at base
ItemOff(items, base, i) == base + SumLen(SubSeq(items, 1, i - 1))

\* a class_def_item with no data of its own
PlainClassDef(class_idx) ==
    [class_idx |-> U32(class_idx), access_flags |-> U32(1),
     superclass_idx |-> NO_INDEX, interfaces_off |-> U32(0),
     source_file_idx |-> NO_INDEX, annotations_off |-> U32(0),
     class_data_off |-> U32(0), static_values_off |-> U32(0)]

\* the strings of a set in the order of their MUTF-8 bytes
RECURSIVE SortedTable(_)
SortedTable(S) ==
    IF S = {} THEN <<>>
    ELSE LET m == CHOOSE x \in S : \A y \in S :
                      SeqCmp(to_java_cesu8(x), to_java_cesu8(y)) # "Greater"
         IN  <<m>> \o SortedTable(S \ {m})

\* A file for the lookups: strs is the string table; every string but the
\* last is a type, in string order; every type is a class, the class_defs
\* in reverse type order.  The data section is the map_list followed by
\* the string data, which ends the file.
LookupFile(strs, en) ==
    LET n == Len(strs)
        t == IF n = 0 THEN 0 ELSE n - 1
        string_ids_off == HeaderSize
        type_ids_off == string_ids_off + 4 * n
        class_defs_off == type_ids_off + 4 * t
        data_off == class_defs_off + 32 * t
        items == [i \in 1 .. n |-> StringData(strs[i])]
        data == MapListBytes(data_off, en) \o Flatten(items)
        body == Flatten([i \in 1 .. n |-> Nat32(ItemOff(items, data_off + 16, i), en)])
                \o Flatten([i \in 1 .. t |-> Nat32(i - 1, en)])
                \o Flatten([k \in 1 .. t |-> ClassDefBytes(PlainClassDef(t - k), en)])
                \o data
        h == [file_size       |-> U32(data_off + Len(data)),
              map_off         |-> U32(data_off),
              string_ids_size |-> U32(n), string_ids_off |-> U32(string_ids_off),
              type_ids_size   |-> U32(t), type_ids_off   |-> U32(type_ids_off),
              proto_ids_size  |-> U32(0), proto_ids_off  |-> U32(0),
              field_ids_size  |-> U32(0), field_ids_off  |-> U32(0),
              method_ids_size |-> U32(0), method_ids_off |-> U32(0),
              class_defs_size |-> U32(t), class_defs_off |-> U32(class_defs_off),
              data_size       |-> U32(Len(data)), data_off |-> U32(data_off)]
    IN  WithHeader(h, body, en)

(***************************************************************************)
(* The lookups: a Dex over a file with a sorted string table, and calls of *)
(* get_string, Strings::get_id, get_type_from_descriptor and               *)
(* find_class_by_name.  res is the last call and what it returned.         *)
(***************************************************************************)
Strs == {<<97>>, <<97, 98>>, <<98>>, <<0>>}

Queries == Strs \cup {<<0, 0>>, <<98, 98>>}

MaxStrings == 3

Endians == {"LE", "BE"}

Call(op, arg, out) == [op |-> op, arg |-> arg, out |-> out]

\* the state after a call that returned r, a result with the cache after it
Returned(op, arg, r) == res' = Call(op, arg, r.out) /\ cache' = r.cache

\* the result r as the item of an iterator
Optional(r) == R(Some(r.out), r.cache)

InitLookup ==
    \E S \in SUBSET Strs, en \in Endians, checks \in BOOLEAN :
        /\ Cardinality(S) <= MaxStrings
        /\ source = LookupFile(SortedTable(S), en)
        /\ overflow_checks = checks
        /\ debug_assertions = checks
        /\ inner = DexReader_from_vec(source, checks)
        /\ IsOk(inner)
        /\ cache = Cache_new(StringCacheSize)
        /\ iter = None
        /\ res = Call("from_vec", <<>>, inner)

StringIds == {U32(i) : i \in 0 .. MaxStrings} \cup {NO_INDEX}

GetString ==
    \E id \in StringIds :
        /\ Returned("get_string", id, call("get_string", <<cache, id>>))
        /\ UNCHANGED <<fixed, iter>>

GetId ==
    \E q \in Queries :
        /\ res' = Call("get_id", q, call("Strings_get_id", <<q>>))
        /\ UNCHANGED <<fixed, cache, iter>>

GetTypeFromDescriptor ==
    \E q \in Queries :
        /\ Returned("get_type_from_descriptor", q,
                    call("get_type_from_descriptor", <<cache, q>>))
        /\ UNCHANGED <<fixed, iter>>

FindClassByName ==
    \E q \in Queries :
        /\ Returned("find_class_by_name", q, call("find_class_by_name", <<cache, q>>))
        /\ UNCHANGED <<fixed, iter>>

NextLookup == GetString \/ GetId \/ GetTypeFromDescriptor \/ FindClassByName

SpecLookup == InitLookup /\ [][NextLookup]_vars

(***************************************************************************)
(* Claims about the lookups.                                               *)
(***************************************************************************)

\* C1: in a file whose string_ids are distinct and sorted by their MUTF-8
\* bytes, get_string(i) succeeds for every i < string_ids_size, and get_id
\* applied to the string that get_string(i) returns is Some(i), also when
\* one stored string is a proper prefix of another.
C1_GetIdOfGetString ==
    /\ (res.op = "get_string" /\ Lt(res.arg, Strings_len)) => IsOk(res.out)
    /\ res.op = "get_id" =>
           \A i \in 0 .. MaxStrings :
               (/\ i < ToNat(Strings_len)
                /\ call("get_string", <<cache, U32(i)>>).out = Ok(res.arg))
                   => res.out = Ok(Some(U32(i)))

\* C2: for every class_def d, find_class_by_name of the descriptor of type
\* d.class_idx returns Ok(Some(c)) with c.id = d.class_idx.
C2_FindClassOfEveryClassDef ==
    res.op = "find_class_by_name" =>
        \A k \in 0 .. MaxStrings :
            LET d == ClassDefItem_pread(ToNat(header.class_defs_off)
                                        + k * ClassDefItemSize)
            IN  (/\ k < ToNat(header.class_defs_size)
                 /\ IsOk(d)
                 /\ call("get_type", <<cache, d.val.class_idx>>).out
                        = Ok([id |-> d.val.class_idx, type_descriptor |-> res.arg]))
                    => /\ IsOk(res.out)
                       /\ res.out.val.some
                       /\ res.out.val.val.id = d.val.class_idx

\* C3: get_id, get_type_from_descriptor and find_class_by_name return Some
\* only for the entry whose stored string equals the query; when no stored
\* string equals the query a call that returns returns Ok(None).
C3_ExactMatchOnly ==
    LET q == res.arg
        stored == \E i \in 0 .. MaxStrings :
                      /\ i < ToNat(Strings_len)
                      /\ call("get_string", <<cache, U32(i)>>).out = Ok(q)
        found == IsOk(res.out) /\ res.out.val.some
    IN  /\ res.op = "get_id" =>
              /\ found => call("get_string", <<cache, res.out.val.val>>).out = Ok(q)
              /\ (~stored /\ IsOk(res.out)) => res.out = Ok(None)
        /\ res.op = "get_type_from_descriptor" =>
              /\ found => res.out.val.val.type_descriptor = q
              /\ (~stored /\ IsOk(res.out)) => res.out = Ok(None)
        /\ res.op = "find_class_by_name" =>
              /\ found => res.out.val.val.jtype.type_descriptor = q
              /\ (~stored /\ IsOk(res.out)) => res.out = Ok(None)

\* C5: on every accepted buffer and for every query, find_class_by_name and
\* get_type_from_descriptor return Ok or Err and never abort.
C5_LookupsNeverAbort ==
    res.op \in {"find_class_by_name", "get_type_from_descriptor"}
        => IsOk(res.out) \/ IsErr(res.out)

\* C19: get_string of an id that is not below string_ids_size returns
\* InvalidId and leaves the string cache as it was, entries and their order.
C19_GetStringOutsideTable ==
    [][(res'.op = "get_string" /\ Le(Strings_len, res'.arg))
           => (IsErrOf(res'.out, "InvalidId") /\ cache' = cache)]_vars

\* InvalidId for the id string_ids_size, with strings in the cache
C19_InvalidIdWithCachedStrings ==
    /\ res.op = "get_string" /\ res.arg = Strings_len
    /\ IsErrOf(res.out, "InvalidId")
    /\ Len(cache.entries) = 2

(***************************************************************************)
(* The string cache: a Dex over a file of strings, one of which may be     *)
(* undecodable, with a cache of any capacity; direct Strings::get calls    *)
(* are interleaved with the steps of a strings() iterator, which shares    *)
(* the cache.                                                              *)
(***************************************************************************)
\* string_data_items: "a", "ab", and one whose bytes are not MUTF-8
StringItems == {StringData(<<97>>), StringData(<<97, 98>>), <<1, 128, 0>>}

MaxCap == 2

\* the string tables: up to MaxStrings distinct items in any order
StringTables ==
    {t \in UNION {[1 .. n -> StringItems] : n \in 0 .. MaxStrings} :
        \A i, j \in DOMAIN t : t[i] = t[j] => i = j}

\* A file of strings only: the data section is the map_list followed by
\* the string_data_items.
StringsFile(items, en) ==
    LET n == Len(items)
        data_off == HeaderSize + 4 * n
        data == MapListBytes(data_off, en) \o Flatten(items)
        body == Flatten([i \in 1 .. n |-> Nat32(ItemOff(items, data_off + 16, i), en)])
                \o data
        h == [file_size       |-> U32(data_off + Len(data)),
              map_off         |-> U32(data_off),
              string_ids_size |-> U32(n), string_ids_off |-> U32(HeaderSize),
              type_ids_size   |-> U32(0), type_ids_off   |-> U32(0),
              proto_ids_size  |-> U32(0), proto_ids_off  |-> U32(0),
              field_ids_size  |-> U32(0), field_ids_off  |-> U32(0),
              method_ids_size |-> U32(0), method_ids_off |-> U32(0),
              class_defs_size |-> U32(0), class_defs_off |-> U32(0),
              data_size       |-> U32(Len(data)), data_off |-> U32(data_off)]
    IN  WithHeader(h, body, en)

InitCache ==
    \E t \in StringTables, en \in Endians, checks \in BOOLEAN,
       cap \in 1 .. MaxCap :
        /\ source = StringsFile(t, en)
        /\ overflow_checks = checks
        /\ debug_assertions = checks
        /\ inner = DexReader_from_vec(source, checks)
        /\ IsOk(inner)
        /\ cache = Cache_new(cap)
        /\ iter = None
        /\ res = Call("from_vec", <<>>, inner)

\* Strings::get
Get ==
    \E id \in StringIds :
        /\ Returned("get", id, call("Strings_get", <<cache, id>>))
        /\ UNCHANGED <<fixed, iter>>

\* Dex::strings: a new iterator over the same cache
StringsCall ==
    /\ iter' = Some(StringsIter_new(zext(Strings_len, 4)))
    /\ res' = Call("strings", <<>>, Ok(iter'.val))
    /\ UNCHANGED <<fixed, cache>>

\* StringsIter::next
IterNext ==
    /\ iter.some
    /\ LET stepped(step) ==
               /\ res' = Call("next", iter.val.current, step.item)
               /\ iter' = Some(step.iter)
               /\ cache' = step.cache
       IN  stepped(StringsIter_next(iter.val, cache))
    /\ UNCHANGED fixed

NextCache == Get \/ StringsCall \/ IterNext

SpecCache == InitCache /\ [][NextCache]_vars

\* C4: at every cache capacity >= 1 and after any interleaving of direct
\* lookups and iterator steps over the shared cache, Strings::get(id) with
\* id < len returns exactly what an uncached decode of string_ids[id]
\* returns; every resident entry holds the decode of its key, so two
\* requests for one id return equal values.
C4_CachedEqualsUncached ==
    /\ (res.op = "get" /\ Lt(res.arg, Strings_len))
           => res.out = Strings_parse(res.arg)
    /\ (res.op = "next" /\ res.out.some)
           => res.out.val = Strings_parse(trunc(res.arg, 2))
    /\ \A i \in DOMAIN cache.entries :
           Ok(cache.entries[i].val) = Strings_parse(cache.entries[i].key)

\* a cache of capacity 1 serves id 0 again after the iterator has passed
\* ids 0 and 1, whose insertion evicted the first copy of id 0
C4_HitAfterEviction ==
    /\ cache.cap = 1
    /\ iter.some /\ ToNat(iter.val.current) = 2
    /\ IsOk(Strings_parse(U32(1)))
    /\ res.op = "get" /\ res.arg = U32(0) /\ IsOk(res.out)
    /\ cache.entries = <<[key |-> U32(0), val |-> res.out.val]>>

\* C18: the iterator that strings() returns starts at id 0 and ranges over
\* string_ids_size ids; a call of next before the end yields what get
\* returns for the current id, an error as well, and moves on by one id; a
\* call at the end yields None and leaves the iterator where it is.
C18_IterYieldsEachIdOnce ==
    /\ res.op = "strings" => iter = Some(StringsIter_new(zext(Strings_len, 4)))
    /\ iter.some =>
           /\ iter.val.len = zext(Strings_len, 4)
           /\ Le(iter.val.current, iter.val.len)
    /\ res.op = "next" =>
           IF Lt(res.arg, zext(Strings_len, 4))
           THEN /\ res.out = Some(Strings_parse(trunc(res.arg, 2)))
                /\ iter.val.current = Add(res.arg, One(4)).val
           ELSE /\ res.out = None
                /\ iter.val.current = res.arg

\* the element for id 1 is a string, after the element for id 0 was an
\* error
C18_StringAfterErrElement ==
    /\ res.op = "next" /\ res.arg = U64(1)
    /\ res.out.some /\ IsOk(res.out.val)
    /\ IsErr(Strings_parse(U32(0)))
    /\ iter.val.current = U64(2)

(***************************************************************************)
(* Opening a damaged file: a valid buffer is opened, then one byte at a    *)
(* position from 12 on is changed and the buffer is opened again.  The     *)
(* state after InitOpen is the valid file; res.arg of the second open is   *)
(* the position and the new byte.                                          *)
(***************************************************************************)
ChecksumEnd == 12

\* the bytes tried at a position whose byte is old
NewBytes(old) == {(old + 1) % 256, (old + 128) % 256, 0, 255} \ {old}

InitOpen ==
    \E S \in SUBSET Strs, en \in Endians, checks \in BOOLEAN :
        /\ Cardinality(S) < MaxStrings
        /\ source = LookupFile(SortedTable(S), en)
        /\ overflow_checks = checks
        /\ debug_assertions = checks
        /\ inner = DexReader_from_vec(source, checks)
        /\ IsOk(inner)
        /\ cache = Cache_new(StringCacheSize)
        /\ iter = None
        /\ res = Call("from_vec", <<>>, inner)

\* DexReader::from_vec of the buffer with the byte at pos replaced
OpenMutated ==
    /\ res.arg = <<>>
    /\ \E pos \in ChecksumEnd .. Len(source) - 1 :
           \E byte \in NewBytes(At(source, pos)) :
               /\ source' = [source EXCEPT ![pos + 1] = byte]
               /\ inner' = DexReader_from_vec(source', overflow_checks)
               /\ res' = Call("from_vec", <<pos, byte>>, inner')
    /\ cache' = Cache_new(StringCacheSize)
    /\ UNCHANGED <<overflow_checks, debug_assertions, iter>>

NextOpen == OpenMutated

SpecOpen == InitOpen /\ [][NextOpen]_vars

ChecksumMismatch ==
    Err("MalFormed", "File corrupted, adler32 checksum doesn't match")

\* C6: opening a buffer obtained from a valid file by changing one byte at
\* a position >= 12 fails with the checksum-mismatch error, at every such
\* position.
C6_AnyMutationIsChecksumMismatch ==
    (res.op = "from_vec" /\ res.arg # <<>>) => res.out = ChecksumMismatch

\* C20: opening a buffer whose bytes 40..43 are neither 12 34 56 78 nor
\* 78 56 34 12 fails with the bad-endian-tag error, whatever else is wrong
\* with the buffer; a Dex that opens is big-endian for the first tag and
\* little-endian for the second, and its header words, its map_list and the
\* offsets of its strings are the stored bytes read in that order.
C20_EndianFromTag ==
    res.op = "from_vec" =>
        /\ SubSeq(source, 41, 44) \notin {<<18, 52, 86, 120>>, <<120, 86, 52, 18>>}
               => res.out = Err("MalFormed", "Bad endian tag")
        /\ IsOk(res.out) =>
               /\ res.out.val.endian =
                      (IF SubSeq(source, 41, 44) = <<18, 52, 86, 120>> THEN "BE"
                       ELSE "LE")
               /\ SubSeq(source, 41, 44) \in {<<18, 52, 86, 120>>, <<120, 86, 52, 18>>}
               /\ Bytes32(header.file_size, endian) = SubSeq(source, 33, 36)
               /\ Bytes32(header.map_off, endian) = SubSeq(source, 53, 56)
               /\ Bytes32(map_list.map_items[1].offset, endian)
                      = SubSeq(source, ToNat(header.map_off) + 13,
                               ToNat(header.map_off) + 16)
               /\ res.arg = <<>> =>
                      /\ ToNat(header.file_size) = Len(source)
                      /\ \A i \in 0 .. ToNat(Strings_len) - 1 :
                             IsOk(Strings_parse(U32(i)))

\* a change of the first byte of the tag: the bad-endian-tag error, not the
\* checksum mismatch of the changed buffer
C20_BadTagBeforeChecksum ==
    /\ res.op = "from_vec" /\ res.arg # <<>> /\ res.arg[1] = 40
    /\ adler32(source, 12) # Field32(source, 8, "LE")
    /\ adler32(source, 12) # Field32(source, 8, "BE")
    /\ res.out = Err("MalFormed", "Bad endian tag")

(***************************************************************************)
(* The id tables: a Dex over a file whose type_ids, proto_ids, field_ids   *)
(* and method_ids sections have n <= MaxIds records (an empty section has  *)
(* offset 0) and whose map_list may have a method-handle entry; calls of   *)
(* the get_*_item operations with indices over the range of the index     *)
(* type, and the iterators over the sections.                              *)
(***************************************************************************)
MaxIds == 2

\* n records in each section; entry: the map_list has a method-handle
\* entry, of n records
IdsFile(n, entry, en) ==
    LET items == <<StringData(<<97>>), StringData(<<98>>)>>
        nt == n
        nm == n
        nh == IF entry THEN n ELSE 0
        type_ids_off == HeaderSize + 8
        proto_ids_off == type_ids_off + 4 * nt
        field_ids_off == proto_ids_off + 12 * nt
        method_ids_off == field_ids_off + 8 * nm
        data_off == method_ids_off + 8 * nm
        map_len == IF entry THEN 28 ELSE 16
        handles_off == data_off + map_len
        strings_off == handles_off + 8 * nh
        map == Nat32(IF entry THEN 2 ELSE 1, en)
               \o Bytes16(4096, en) \o Bytes16(0, en)
               \o Nat32(1, en) \o Nat32(data_off, en)
               \o (IF entry
                   THEN Bytes16(MethodHandleItemType, en) \o Bytes16(0, en)
                        \o Nat32(nh, en) \o Nat32(handles_off, en)
                   ELSE <<>>)
        data == map
                \o Flatten([i \in 1 .. nh |->
                       Bytes16(4, en) \o Bytes16(0, en)
                       \o Bytes16(i - 1, en) \o Bytes16(0, en)])
                \o Flatten(items)
        body == Flatten([i \in 1 .. 2 |-> Nat32(ItemOff(items, strings_off, i), en)])
                \o Flatten([i \in 1 .. nt |-> Nat32((i - 1) % 2, en)])
                \o Flatten([i \in 1 .. nt |->
                       Nat32(0, en) \o Nat32(i - 1, en) \o Nat32(0, en)])
                \o Flatten([i \in 1 .. nm |->
                       Bytes16(0, en) \o Bytes16(0, en) \o Nat32(1, en)])
                \o Flatten([i \in 1 .. nm |->
                       Bytes16(0, en) \o Bytes16(0, en) \o Nat32(0, en)])
                \o data
        off(k, o) == U32(IF k = 0 THEN 0 ELSE o)
        h == [file_size       |-> U32(data_off + Len(data)),
              map_off         |-> U32(data_off),
              string_ids_size |-> U32(2), string_ids_off |-> U32(HeaderSize),
              type_ids_size   |-> U32(nt), type_ids_off   |-> off(nt, type_ids_off),
              proto_ids_size  |-> U32(nt), proto_ids_off  |-> off(nt, proto_ids_off),
              field_ids_size  |-> U32(nm), field_ids_off  |-> off(nm, field_ids_off),
              method_ids_size |-> U32(nm), method_ids_off |-> off(nm, method_ids_off),
              class_defs_size |-> U32(0), class_defs_off |-> U32(0),
              data_size       |-> U32(Len(data)), data_off |-> U32(data_off)]
    IN  WithHeader(h, body, en)

InitIds ==
    \E n \in 0 .. MaxIds, entry \in BOOLEAN, en \in Endians,
       checks \in BOOLEAN :
        /\ source = IdsFile(n, entry, en)
        /\ overflow_checks = checks
        /\ debug_assertions = checks
        /\ inner = DexReader_from_vec(source, checks)
        /\ IsOk(inner)
        /\ cache = Cache_new(StringCacheSize)
        /\ iter = None
        /\ res = Call("from_vec", <<>>, inner)

\* indices of a uint index type: in and just past the sections, and those
\* whose product with the stride reaches 2^32
UintIds ==
    {U32(i) : i \in 0 .. MaxIds + 1}
    \cup {<<0, 16384>>, <<1, 16384>>, <<Base - 1, 16383>>, <<0, 8192>>, NO_INDEX}

\* indices of a ulong index type: the same, with products that reach 2^64
UlongIds ==
    {U64(i) : i \in 0 .. MaxIds + 1}
    \cup {<<0, 0, 0, 16384>>, <<1, 0, 0, 16384>>, <<0, 0, 0, 8192>>,
          <<Base - 1, Base - 1, Base - 1, 8191>>,
          <<Base - 1, Base - 1, Base - 1, Base - 1>>}

GetType ==
    \E id \in UintIds :
        /\ Returned("get_type", id, call("get_type", <<cache, id>>))
        /\ UNCHANGED <<fixed, iter>>

GetFieldItem ==
    \E id \in UlongIds :
        /\ res' = Call("get_field_item", id, call("get_field_item", <<id>>))
        /\ UNCHANGED <<fixed, cache, iter>>

GetProtoItem ==
    \E id \in UlongIds :
        /\ res' = Call("get_proto_item", id, call("get_proto_item", <<id>>))
        /\ UNCHANGED <<fixed, cache, iter>>

GetMethodItem ==
    \E id \in UlongIds :
        /\ res' = Call("get_method_item", id, call("get_method_item", <<id>>))
        /\ UNCHANGED <<fixed, cache, iter>>

GetMethodHandleItem ==
    \E id \in UintIds :
        /\ res' = Call("get_method_handle_item", id, call("get_method_handle_item", <<id>>))
        /\ UNCHANGED <<fixed, cache, iter>>

\* the section lengths the iterators of Dex take their ranges from
method_handles_len == MapList_get(map_list, MethodHandleItemType)

IdsLen(of) ==
    CASE of = "types" -> header.type_ids_size
      [] of = "proto_ids" -> header.proto_ids_size
      [] of = "field_ids" -> header.field_ids_size
      [] of = "method_ids" -> header.method_ids_size
      [] of = "method_handles" ->
             IF method_handles_len.some THEN method_handles_len.val.size ELSE U32(0)

\* the closure each iterator maps over its range
IdsItem(of, c, id) ==
    LET item(r) == IF of = "types" THEN r ELSE R(r, c)
    IN  item(call(CASE of = "types" -> "get_type"
                    [] of = "proto_ids" -> "get_proto_item"
                    [] of = "field_ids" -> "get_field_item"
                    [] of = "method_ids" -> "get_method_item"
                    [] of = "method_handles" -> "get_method_handle_item",
                  CASE of = "types" -> <<c, id>>
                    [] of = "method_handles" -> <<id>>
                    [] OTHER -> <<zext(id, 4)>>))

\* Dex::types, proto_ids, field_ids, method_ids, method_handles: the range
\* 0 .. len of the section
Ids ==
    \E of \in {"types", "proto_ids", "field_ids", "method_ids", "method_handles"} :
        /\ iter' = Some([of |-> of, start |-> U32(0), end |-> IdsLen(of)])
        /\ res' = Call(of, <<>>, Ok(iter'.val))
        /\ UNCHANGED <<fixed, cache>>

\* next of such an iterator: the item of the range's next id, if any
IdsNext ==
    /\ iter.some
    /\ IF Lt(iter.val.start, iter.val.end)
       THEN /\ Returned("next", <<iter.val.of, iter.val.start>>,
                        Optional(IdsItem(iter.val.of, cache, iter.val.start)))
            /\ iter' = Some([iter.val EXCEPT !.start = Add(@, One(2)).val])
       ELSE /\ res' = Call("next", <<iter.val.of, iter.val.start>>, None)
            /\ UNCHANGED <<cache, iter>>
    /\ UNCHANGED fixed

NextIds ==
    \/ GetType \/ GetFieldItem \/ GetProtoItem \/ GetMethodItem
    \/ GetMethodHandleItem \/ Ids \/ IdsNext

SpecIds == InitIds /\ [][NextIds]_vars

\* C7: for a section of n >= 1 records, get_type, get_field_item,
\* get_proto_item and get_method_item return InvalidId for every index
\* i >= n of the index type, and Ok only for i < n.
C7_IndexPastSectionIsInvalidId ==
    LET check(n) ==
            ~IsZero(n) =>
                /\ Le(n, res.arg) => IsErrOf(res.out, "InvalidId")
                /\ IsOk(res.out) => Lt(res.arg, n)
    IN  /\ res.op = "get_type" => check(header.type_ids_size)
        /\ res.op = "get_field_item" => check(zext(header.field_ids_size, 4))
        /\ res.op = "get_proto_item" => check(zext(header.proto_ids_size, 4))
        /\ res.op = "get_method_item" => check(zext(header.method_ids_size, 4))

\* C8: on an empty section (size 0 in the header; for method handles, a
\* map_list entry of size 0 or no entry) get_type, get_field_item,
\* get_proto_item, get_method_item and get_method_handle_item return
\* InvalidId for every index, and the section's iterator yields nothing.
C8_EmptySectionIsInvalidId ==
    LET invalid == IsErrOf(res.out, "InvalidId")
    IN  /\ (res.op = "get_type" /\ IsZero(header.type_ids_size)) => invalid
        /\ (res.op = "get_field_item" /\ IsZero(header.field_ids_size)) => invalid
        /\ (res.op = "get_proto_item" /\ IsZero(header.proto_ids_size)) => invalid
        /\ (res.op = "get_method_item" /\ IsZero(header.method_ids_size)) => invalid
        /\ (res.op = "get_method_handle_item" /\ IsZero(IdsLen("method_handles")))
               => invalid
        /\ (res.op = "next" /\ IsZero(IdsLen(res.arg[1]))) => res.out = None

(***************************************************************************)
(* Files with classes.  The tables are two strings, two types, one proto,  *)
(* two fields and one method; the data section holds the map_list, a       *)
(* type_list, three class_data_items (a good one, one with a field and one *)
(* with a method of undefined access flags), an encoded_array of static    *)
(* values, an annotations directory, an annotation set and the string      *)
(* data.  There is one class_def per set of damaged constituents.          *)
(***************************************************************************)
Constituents ==
    {"class_idx", "annotations_off", "static_values_off", "class_data_off",
     "field", "method", "interfaces_off", "access_flags", "source_file_idx"}

\* the three ways to damage what class_data_off leads to exclude each other
ClassData == {"class_data_off", "field", "method"}

\* no damage, one damaged constituent, or two
Damages ==
    {v \in {{}} \cup {{s, t} : s, t \in Constituents} :
        \A s, t \in v \cap ClassData : s = t}

RECURSIVE SetToSeq(_)
SetToSeq(S) ==
    IF S = {} THEN <<>>
    ELSE LET x == CHOOSE y \in S : TRUE IN <<x>> \o SetToSeq(S \ {x})

\* the items of the data section after the map_list, in file order
ClassItems(en) ==
    <<Nat32(1, en) \o Bytes16(1, en) \o Bytes16(0, en),
      <<1, 1, 1, 0, 0, 9, 1, 1, 0, 1, 0>>,
      <<1, 0, 0, 0, 0, 32>>,
      <<0, 0, 1, 0, 0, 128, 4, 0>>,
      <<1, 0, 5>>,
      Zeros(16),
      Nat32(0, en),
      StringData(<<97>>),
      StringData(<<98>>)>>

\* where the tables and the items of the data section are
ClassLayout ==
    LET defs == Cardinality(Damages)
        type_ids_off == HeaderSize + 8
        proto_ids_off == type_ids_off + 8
        field_ids_off == proto_ids_off + 12
        method_ids_off == field_ids_off + 16
        class_defs_off == method_ids_off + 8
        data_off == class_defs_off + ClassDefItemSize * defs
        at(i) == ItemOff(ClassItems("LE"), data_off + 16, i)
    IN  [type_ids_off |-> type_ids_off, proto_ids_off |-> proto_ids_off,
         field_ids_off |-> field_ids_off, method_ids_off |-> method_ids_off,
         class_defs_off |-> class_defs_off, data_off |-> data_off,
         data_size |-> 16 + SumLen(ClassItems("LE")),
         interfaces |-> at(1), class_data |-> at(2), bad_field |-> at(3),
         bad_method |-> at(4), static_values |-> at(5), directory |-> at(6),
         annotation_set |-> at(7), strings |-> <<at(8), at(9)>>]

\* the class_def_item whose constituents in v are damaged
DamagedClassDef(v) ==
    LET bad(s) == s \in v
        def(L) ==
            [class_idx         |-> U32(IF bad("class_idx") THEN 2 ELSE 0),
             access_flags      |-> U32(IF bad("access_flags") THEN 32 ELSE 1),
             superclass_idx    |-> NO_INDEX,
             interfaces_off    |-> U32(IF bad("interfaces_off") THEN 1
                                       ELSE L.interfaces),
             source_file_idx   |-> U32(IF bad("source_file_idx") THEN 2 ELSE 0),
             annotations_off   |-> U32(IF bad("annotations_off") THEN 1
                                       ELSE L.directory),
             class_data_off    |-> U32(IF bad("class_data_off") THEN L.data_off - 1
                                       ELSE IF bad("field") THEN L.bad_field
                                       ELSE IF bad("method") THEN L.bad_method
                                       ELSE L.class_data),
             static_values_off |-> U32(IF bad("static_values_off") THEN 1
                                       ELSE L.static_values)]
    IN  def(ClassLayout)

ClassFile(en) ==
    LET file(L, defs, data) ==
            WithHeader(
                [file_size       |-> U32(L.data_off + Len(data)),
                 map_off         |-> U32(L.data_off),
                 string_ids_size |-> U32(2), string_ids_off |-> U32(HeaderSize),
                 type_ids_size   |-> U32(2), type_ids_off   |-> U32(L.type_ids_off),
                 proto_ids_size  |-> U32(1), proto_ids_off  |-> U32(L.proto_ids_off),
                 field_ids_size  |-> U32(2), field_ids_off  |-> U32(L.field_ids_off),
                 method_ids_size |-> U32(1), method_ids_off |-> U32(L.method_ids_off),
                 class_defs_size |-> U32(Len(defs)),
                 class_defs_off  |-> U32(L.class_defs_off),
                 data_size       |-> U32(Len(data)), data_off |-> U32(L.data_off)],
                Nat32(L.strings[1], en) \o Nat32(L.strings[2], en)
                \o Nat32(0, en) \o Nat32(1, en)
                \o Nat32(0, en) \o Nat32(0, en) \o Nat32(0, en)
                \o Bytes16(0, en) \o Bytes16(0, en) \o Nat32(0, en)
                \o Bytes16(0, en) \o Bytes16(1, en) \o Nat32(1, en)
                \o Bytes16(0, en) \o Bytes16(0, en) \o Nat32(1, en)
                \o Flatten([k \in 1 .. Len(defs) |->
                       ClassDefBytes(DamagedClassDef(defs[k]), en)])
                \o data,
                en)
        laid(L) == file(L, SetToSeq(Damages),
                        MapListBytes(L.data_off, en) \o Flatten(ClassItems(en)))
    IN  laid(ClassLayout)

InitClass ==
    \E en \in Endians, checks \in BOOLEAN :
        /\ source = ClassFile(en)
        /\ overflow_checks = checks
        /\ debug_assertions = checks
        /\ inner = DexReader_from_vec(source, checks)
        /\ IsOk(inner)
        /\ cache = Cache_new(StringCacheSize)
        /\ iter = None
        /\ res = Call("from_vec", <<>>, inner)

\* Dex::classes: the class_defs iterator, each item through
\* Class::try_from_dex
Classes ==
    /\ iter' = Some(ClassDefItemIter_new)
    /\ res' = Call("classes", <<>>, Ok(iter'.val))
    /\ UNCHANGED <<fixed, cache>>

\* next of the classes iterator
ClassesNext ==
    /\ iter.some
    /\ LET loaded(class_def, class) ==
               Returned("classes.next", class_def.val, Optional(class))
           stepped(step) ==
               /\ iter' = Some(step.iter)
               /\ IF ~step.item.some
                  THEN res' = Call("classes.next", <<>>, None) /\ cache' = cache
                  ELSE IF ~IsOk(step.item.val)
                  THEN /\ res' = Call("classes.next", <<>>, Some(step.item.val))
                       /\ cache' = cache
                  ELSE loaded(step.item.val,
                              call("Class_try_from_dex", <<cache, step.item.val.val>>))
       IN  stepped(ClassDefItemIter_next(iter.val))
    /\ UNCHANGED fixed

NextClass == Classes \/ ClassesNext

SpecClass == InitClass /\ [][NextClass]_vars

(***************************************************************************)
(* The getters that take an offset into the data section, called on a      *)
(* file with classes at the offsets around the section and at each item.   *)
(***************************************************************************)
Offsets ==
    LET around(L) ==
            {U32(o) : o \in {0, 1, L.data_off - 1, L.data_off, L.interfaces,
                             L.class_data, L.bad_field, L.bad_method,
                             L.static_values, L.directory, L.annotation_set,
                             L.data_off + L.data_size - 1,
                             L.data_off + L.data_size}}
    IN  around(ClassLayout) \cup {NO_INDEX}

GetClassData ==
    /\ \E offset \in Offsets :
           res' = Call("get_class_data", offset, call("get_class_data", <<offset>>))
    /\ UNCHANGED <<fixed, cache, iter>>

GetStaticValues ==
    /\ \E offset \in Offsets :
           Returned("get_static_values", offset,
                    call("get_static_values", <<cache, offset>>))
    /\ UNCHANGED <<fixed, iter>>

GetAnnotationsDirectoryItem ==
    /\ \E offset \in Offsets :
           Returned("get_annotations_directory_item", offset,
                    call("get_annotations_directory_item", <<cache, offset>>))
    /\ UNCHANGED <<fixed, iter>>

GetAnnotationSetItem ==
    /\ \E offset \in Offsets :
           Returned("get_annotation_set_item", offset,
                    call("get_annotation_set_item", <<cache, offset>>))
    /\ UNCHANGED <<fixed, iter>>

GetInterfaces ==
    /\ \E offset \in Offsets :
           Returned("get_interfaces", offset, call("get_interfaces", <<cache, offset>>))
    /\ UNCHANGED <<fixed, iter>>

NextOffsets ==
    \/ GetClassData
    \/ GetStaticValues
    \/ GetAnnotationsDirectoryItem
    \/ GetAnnotationSetItem
    \/ GetInterfaces

SpecOffsets == InitClass /\ [][NextOffsets]_vars

OffsetGetters ==
    {"get_class_data", "get_static_values", "get_annotations_directory_item",
     "get_annotation_set_item", "get_interfaces"}

\* what each getter returns for offset 0
EmptyResult(op) ==
    CASE op = "get_class_data" -> Ok(None)
      [] op = "get_static_values" -> Ok(EncodedArray_default)
      [] op = "get_annotations_directory_item" -> Ok(AnnotationsDirectoryItem_default)
      [] op = "get_annotation_set_item" -> Ok(AnnotationSetItem_default)
      [] op = "get_interfaces" -> Ok(<<>>)

\* the BadOffset error of each getter
BadOffsetOf(op) ==
    CASE op = "get_class_data" ->
             Err("BadOffset", "ClassData offset not in data section")
      [] op = "get_static_values" ->
             Err("BadOffset", "Class static values offset not in data section")
      [] op = "get_annotations_directory_item" ->
             Err("BadOffset", "Annotations directory offset not in data section")
      [] op = "get_annotation_set_item" ->
             Err("BadOffset", "AnnotationSetItem offset not in data section")
      [] op = "get_interfaces" ->
             Err("BadOffset", "Interfaces offset not in data section")

\* the outcome of decoding the getter's structure at an offset
DecodedAt(op, o) ==
    CASE op = "get_class_data" ->
             LET d == ClassDataItem_try_from_ctx(o)
             IN  IF IsOk(d) THEN Ok(Some(d.val.val)) ELSE d
      [] op = "get_static_values" ->
             LET d == EncodedArray_try_from_ctx(cache, o).out
             IN  IF IsOk(d) THEN Ok(d.val.val) ELSE d
      [] op = "get_annotations_directory_item" ->
             LET d == AnnotationsDirectoryItem_try_from_ctx(cache, o).out
             IN  IF IsOk(d) THEN Ok(d.val.val) ELSE d
      [] op = "get_annotation_set_item" ->
             LET d == AnnotationSetItem_try_from_ctx(cache, o).out
             IN  IF IsOk(d) THEN Ok(d.val.val) ELSE d
      [] op = "get_interfaces" ->
             LET len == read_u32(source, o, endian)
                 ids == call("try_gread_vec_with", <<"ushort", cache, o + 4,
                                           zext(len.val, 4), endian>>)
             IN  IF ~IsOk(len) THEN len
                 ELSE IF ~IsOk(ids.out) THEN ids.out
                 ELSE call("collect", <<"get_type", cache, ids.out.val.val, 1>>).out

\* data_off <= offset < data_off + data_size, in naturals
InsideDataSection(offset) ==
    /\ FitsNat(offset)
    /\ ToNat(header.data_off) <= ToNat(offset)
    /\ ToNat(offset) < ToNat(header.data_off) + ToNat(header.data_size)

\* C9: get_class_data, get_static_values, get_annotations_directory_item,
\* get_annotation_set_item and get_interfaces return their empty result for
\* offset 0, their BadOffset error for any other offset outside
\* [data_off, data_off + data_size), and decode only offsets inside it.
C9_OffsetsOutsideDataSectionAreBadOffset ==
    res.op \in OffsetGetters =>
        IF IsZero(res.arg) THEN res.out = EmptyResult(res.op)
        ELSE IF ~InsideDataSection(res.arg) THEN res.out = BadOffsetOf(res.op)
        ELSE res.out = DecodedAt(res.op, ToNat(res.arg))

\* an offset one past the last byte of the data section is refused
C9_EndOfDataSectionIsBadOffset ==
    /\ res.op = "get_interfaces"
    /\ ~IsZero(res.arg)
    /\ FitsNat(res.arg)
    /\ ToNat(res.arg) = ToNat(header.data_off) + ToNat(header.data_size)
    /\ res.out = Err("BadOffset", "Interfaces offset not in data section")

\* the outcomes of the constituent decodes of a class, in the order
\* Class::try_from_dex evaluates them
Constituent(class_def) ==
    LET class_data == call("get_class_data", <<class_def.class_data_off>>)
        items == IF IsOk(class_data) /\ class_data.val.some
                 THEN class_data.val.val
                 ELSE [static_fields |-> None, instance_fields |-> None,
                       direct_methods |-> None, virtual_methods |-> None]
        field(f) == call("Field_try_from_dex", <<cache, f, None, AnnotationSetItem_default>>).out
        method(m) == call("Method_try_from_dex", <<cache, m, AnnotationSetItem_default,
                                         AnnotationSetRefList_default>>).out
        fields == Items(items.static_fields) \o Items(items.instance_fields)
        methods == Items(items.direct_methods) \o Items(items.virtual_methods)
    IN  <<call("get_type", <<cache, class_def.class_idx>>).out,
          call("get_annotations_directory_item", <<cache, class_def.annotations_off>>).out,
          call("get_static_values", <<cache, class_def.static_values_off>>).out,
          class_data>>
        \o [k \in 1 .. Len(fields) |-> field(fields[k])]
        \o [k \in 1 .. Len(methods) |-> method(methods[k])]
        \o <<call("get_interfaces", <<cache, class_def.interfaces_off>>).out,
             IF from_bits_ok(class_def.access_flags, ClassAccessFlags)
             THEN Ok(class_def.access_flags)
             ELSE Err("InvalidId", "Invalid Access flags in class"),
             call("get_source_file", <<cache, class_def.source_file_idx>>).out>>

Failed(parts) == {k \in 1 .. Len(parts) : ~IsOk(parts[k])}

FirstFailed(parts) ==
    CHOOSE k \in Failed(parts) : \A j \in Failed(parts) : k <= j

\* C10: Class::try_from_dex returns Err and no Class whenever a constituent
\* decode fails (class type, annotations directory, static values, class
\* data, a field, a method, interfaces, access flags, source file), the
\* error is that of the failing decoder unchanged (the first in evaluation
\* order when several fail), and a class_data_off one byte before data_off
\* fails the load with BadOffset.
C10_ClassLoadPropagatesDecodeErrors ==
    (res.op = "classes.next" /\ res.out.some) =>
        LET parts == Constituent(res.arg)
        IN  /\ IsOk(res.out.val) <=> Failed(parts) = {}
            /\ Failed(parts) # {} =>
                   /\ IsErr(res.out.val)
                   /\ res.out.val = parts[FirstFailed(parts)]
            /\ (/\ ~IsZero(res.arg.class_data_off)
                /\ Add(res.arg.class_data_off, U32(1)).val = header.data_off
                /\ \A k \in 1 .. 3 : IsOk(parts[k]))
               => res.out.val = Err("BadOffset", "ClassData offset not in data section")

\* a class whose class_data_off is data_off - 1 and whose interfaces_off
\* is damaged as well fails to load with the BadOffset of the class data
C10_ClassDataBeforeDataSection ==
    /\ res.op = "classes.next"
    /\ res.out.some
    /\ res.arg.class_data_off = U32(ToNat(header.data_off) - 1)
    /\ res.arg.interfaces_off = U32(1)
    /\ res.out.val = Err("BadOffset", "ClassData offset not in data section")

(***************************************************************************)
(* Files with one class.  The tables are two strings, two types, one       *)
(* proto, two fields and two methods; the data section holds the map_list  *)
(* and then, from MemberLayout.items on, a code_item or nothing, the       *)
(* class_data_item, the encoded_array of static values and the string      *)
(* data.                                                                   *)
(***************************************************************************)
MemberLayout ==
    LET tables(type_ids_off) ==
            [type_ids_off   |-> type_ids_off,
             proto_ids_off  |-> type_ids_off + 8,
             field_ids_off  |-> type_ids_off + 20,
             method_ids_off |-> type_ids_off + 36,
             class_defs_off |-> type_ids_off + 52,
             data_off       |-> type_ids_off + 52 + ClassDefItemSize,
             items          |-> type_ids_off + 52 + ClassDefItemSize + 16]
    IN  tables(HeaderSize + 8)

AnnotatedMemberFile(en, superclass_idx, access_flags, annotations_off, code,
                    class_data, static_values) ==
    LET file(L, at, data) ==
            WithHeader(
                [file_size       |-> U32(L.data_off + Len(data)),
                 map_off         |-> U32(L.data_off),
                 string_ids_size |-> U32(2), string_ids_off |-> U32(HeaderSize),
                 type_ids_size   |-> U32(2), type_ids_off   |-> U32(L.type_ids_off),
                 proto_ids_size  |-> U32(1), proto_ids_off  |-> U32(L.proto_ids_off),
                 field_ids_size  |-> U32(2), field_ids_off  |-> U32(L.field_ids_off),
                 method_ids_size |-> U32(2), method_ids_off |-> U32(L.method_ids_off),
                 class_defs_size |-> U32(1),
                 class_defs_off  |-> U32(L.class_defs_off),
                 data_size       |-> U32(Len(data)), data_off |-> U32(L.data_off)],
                Nat32(at[4], en) \o Nat32(at[5], en)
                \o Nat32(0, en) \o Nat32(1, en)
                \o Nat32(0, en) \o Nat32(0, en) \o Nat32(0, en)
                \o Bytes16(0, en) \o Bytes16(0, en) \o Nat32(0, en)
                \o Bytes16(0, en) \o Bytes16(1, en) \o Nat32(1, en)
                \o Bytes16(0, en) \o Bytes16(0, en) \o Nat32(0, en)
                \o Bytes16(0, en) \o Bytes16(0, en) \o Nat32(1, en)
                \o ClassDefBytes(
                       [class_idx         |-> U32(0),
                        access_flags      |-> access_flags,
                        superclass_idx    |-> superclass_idx,
                        interfaces_off    |-> U32(0),
                        source_file_idx   |-> NO_INDEX,
                        annotations_off   |-> U32(annotations_off),
                        class_data_off    |-> U32(at[2]),
                        static_values_off |-> U32(IF static_values = <<>> THEN 0
                                                  ELSE at[3])], en)
                \o data,
                en)
        laid(L, items) ==
            file(L, [i \in 1 .. Len(items) |-> ItemOff(items, L.items, i)],
                 MapListBytes(L.data_off, en) \o Flatten(items))
    IN  laid(MemberLayout,
             <<code, class_data, static_values, StringData(<<97>>), StringData(<<98>>)>>)

\* the file of a class without annotations
FlaggedMemberFile(en, superclass_idx, access_flags, code, class_data, static_values) ==
    AnnotatedMemberFile(en, superclass_idx, access_flags, 0, code, class_data,
                        static_values)

\* the file of a public class
MemberFile(en, superclass_idx, code, class_data, static_values) ==
    FlaggedMemberFile(en, superclass_idx, U32(1), code, class_data, static_values)

\* encoded_field and encoded_method items from the differences of their ids
EncodedFields(diffs, access_flags) ==
    Flatten([k \in 1 .. Len(diffs) |-> <<diffs[k], access_flags>>])

EncodedMethods(diffs, code_off) ==
    Flatten([k \in 1 .. Len(diffs) |-> <<diffs[k], 1>> \o code_off])

\* a class_data_item of static fields, instance fields and direct methods
ClassDataBytes(static, instance, direct, code_off) ==
    <<Len(static), Len(instance), Len(direct), 0>>
    \o EncodedFields(static, 9) \o EncodedFields(instance, 1)
    \o EncodedMethods(direct, code_off)

\* an encoded_array of k Byte values 5, 6, ...
ByteValues(k) == <<k>> \o Flatten([i \in 1 .. k |-> <<0, 4 + i>>])

MaxMembers == 2

MaxValues == 3

\* the lists of id differences of an encoded array
Diffs == UNION {[1 .. n -> {0, 1}] : n \in 0 .. MaxMembers}

(***************************************************************************)
(* The members of a class: a Dex over a file with one class of up to       *)
(* MaxMembers static fields, instance fields and direct methods, whose ids *)
(* repeat or advance, with up to MaxValues static values and with or       *)
(* without a superclass; the class is loaded through Dex::classes.         *)
(***************************************************************************)
InitMembers ==
    \E en \in Endians, checks \in BOOLEAN, superclass_idx \in {NO_INDEX, U32(1)},
       static \in Diffs, instance \in Diffs, direct \in Diffs, k \in 0 .. MaxValues :
        /\ source = MemberFile(en, superclass_idx, <<>>,
                               ClassDataBytes(static, instance, direct, <<0>>),
                               ByteValues(k))
        /\ overflow_checks = checks
        /\ debug_assertions = checks
        /\ inner = DexReader_from_vec(source, checks)
        /\ IsOk(inner)
        /\ cache = Cache_new(StringCacheSize)
        /\ iter = None
        /\ res = Call("from_vec", <<>>, inner)

SpecMembers == InitMembers /\ [][NextClass]_vars

(***************************************************************************)
(* Claims about the members of a class.                                    *)
(***************************************************************************)

\* C11: a class that loads has super_class None when the superclass_idx of
\* its class_def is NO_INDEX, and Some(superclass_idx) otherwise.
C11_SuperClassOfClassDef ==
    (res.op = "classes.next" /\ res.out.some /\ IsOk(res.out.val)) =>
        res.out.val.val.super_class =
            IF res.arg.superclass_idx = NO_INDEX THEN None
            ELSE Some(res.arg.superclass_idx)

\* C12: in a class that loads, static field i in declaration order has the
\* initial value Some(static value i) while there are static values, and
\* None after the last of them; every instance field has the initial value
\* None.
C12_StaticValuesInFieldOrder ==
    (res.op = "classes.next" /\ res.out.some /\ IsOk(res.out.val)) =>
        LET attached(class, values) ==
                /\ \A i \in 1 .. Len(class.static_fields) :
                       class.static_fields[i].initial_value =
                           IF i <= Len(values) THEN Some(values[i]) ELSE None
                /\ \A i \in 1 .. Len(class.instance_fields) :
                       class.instance_fields[i].initial_value = None
        IN  attached(res.out.val.val,
                     call("get_static_values",
                          <<cache, res.arg.static_values_off>>).out.val.values)

\* two static fields and one static value, Byte 5: the first field has it,
\* the second field and the instance field have none
C12_OneValueForTwoStaticFields ==
    /\ res.op = "classes.next" /\ res.out.some /\ IsOk(res.out.val)
    /\ Len(res.out.val.val.static_fields) = 2
    /\ Len(res.out.val.val.instance_fields) = 1
    /\ res.out.val.val.static_fields[1].initial_value
           = Some([type |-> "Byte", bytes |-> <<5>>])
    /\ res.out.val.val.static_fields[2].initial_value = None
    /\ res.out.val.val.instance_fields[1].initial_value = None
    /\ res.out.val.val.static_fields[1].id # res.out.val.val.static_fields[2].id

\* C17: in a class_data_item that decodes, the ids of consecutive encoded
\* fields of an array are strictly increasing, and so are the ids of
\* consecutive encoded methods.
C17_MemberIdsIncrease ==
    (res.op = "classes.next" /\ res.out.some) =>
        LET increasing(items) ==
                \A i \in 1 .. Len(items) - 1 : Lt(items[i].id, items[i + 1].id)
            arrays(class_data) ==
                (IsOk(class_data) /\ class_data.val.some) =>
                    /\ increasing(Items(class_data.val.val.static_fields))
                    /\ increasing(Items(class_data.val.val.instance_fields))
                    /\ increasing(Items(class_data.val.val.direct_methods))
                    /\ increasing(Items(class_data.val.val.virtual_methods))
        IN  arrays(call("get_class_data", <<res.arg.class_data_off>>))

(***************************************************************************)
(* Code with try blocks: a Dex over a file with one class of one direct    *)
(* method, whose code_item has one instruction, one or two try_items and   *)
(* an encoded_catch_handler_list of one or two handlers; the class is      *)
(* loaded through Dex::classes.                                            *)
(***************************************************************************)
RECURSIVE UlebBytes(_)
UlebBytes(n) ==
    IF n < 128 THEN <<n>> ELSE <<(n % 128) + 128>> \o UlebBytes(n \div 128)

\* a signed size of one SLEB128 byte
SlebByte(s) == IF s < 0 THEN 128 + s ELSE s

SignedByte(b) == IF b >= 64 THEN b - 128 ELSE b

Magnitude(s) == IF s < 0 THEN 0 - s ELSE s

\* encoded_catch_handler j of a list, of stored size s: typed handler k is
\* for type (k - 1) % 2 at address 10 j + k, the catch-all is at 10 j + 9
CatchHandlerBytes(s, j) ==
    <<SlebByte(s)>>
    \o Flatten([k \in 1 .. Magnitude(s) |-> <<(k - 1) % 2, 10 * j + k>>])
    \o (IF s <= 0 THEN <<10 * j + 9>> ELSE <<>>)

\* try_item k: start_addr 4 k, insn_count k
TryItemBytes(k, handler_off, en) ==
    Nat32(4 * k, en) \o Bytes16(k, en) \o Bytes16(handler_off, en)

\* a code_item of one instruction, padded, with its tries and handlers
CodeItemBytes(handler_offs, sizes, en) ==
    Bytes16(1, en) \o Bytes16(0, en) \o Bytes16(0, en)
    \o Bytes16(Len(handler_offs), en) \o Nat32(0, en) \o Nat32(1, en)
    \o Bytes16(14, en) \o Bytes16(0, en)
    \o Flatten([k \in 1 .. Len(handler_offs) |-> TryItemBytes(k, handler_offs[k], en)])
    \o <<Len(sizes)>>
    \o Flatten([j \in 1 .. Len(sizes) |-> CatchHandlerBytes(sizes[j], j)])

MaxTries == 2

MaxHandlers == 2

MaxHandlerSize == 2

HandlerOffs == {1, 3, 4, 5}

HandlerSizes == (0 - MaxHandlerSize) .. MaxHandlerSize

InitCode ==
    \E en \in Endians, checks \in BOOLEAN,
       handler_offs \in UNION {[1 .. n -> HandlerOffs] : n \in 1 .. MaxTries},
       sizes \in UNION {[1 .. n -> HandlerSizes] : n \in 1 .. MaxHandlers} :
        /\ source = MemberFile(en, NO_INDEX, CodeItemBytes(handler_offs, sizes, en),
                               ClassDataBytes(<<>>, <<>>, <<0>>,
                                              UlebBytes(MemberLayout.items)),
                               <<>>)
        /\ overflow_checks = checks
        /\ debug_assertions = checks
        /\ inner = DexReader_from_vec(source, checks)
        /\ IsOk(inner)
        /\ cache = Cache_new(StringCacheSize)
        /\ iter = None
        /\ res = Call("from_vec", <<>>, inner)

SpecCode == InitCode /\ [][NextClass]_vars

(***************************************************************************)
(* Claims about try blocks.  The expected values are read from the bytes   *)
(* of the code_item: its try_items start 20 bytes after it, the handler    *)
(* list follows them.                                                      *)
(***************************************************************************)
\* the offset of try_item k and of the encoded_catch_handler_list
TryItemOff(k) == MemberLayout.items + 20 + 8 * (k - 1)

HandlerListOff == TryItemOff(read_u16(source, MemberLayout.items + 6, endian).val + 1)

\* the length in bytes of an encoded_catch_handler of stored size s
CatchHandlerLen(s) == 1 + 2 * Magnitude(s) + (IF s <= 0 THEN 1 ELSE 0)

\* the offsets of the handlers from the start of the list, from handler j
\* at offset off on
RECURSIVE HandlerStarts(_, _)
HandlerStarts(j, off) ==
    IF j > At(source, HandlerListOff) THEN {}
    ELSE {off} \cup HandlerStarts(j + 1,
              off + CatchHandlerLen(SignedByte(At(source, HandlerListOff + off))))

\* the catch handlers stored at offset off of the list, as the Dex gives
\* them
StoredHandlers(off) ==
    LET s == SignedByte(At(source, HandlerListOff + off))
        at(i) == At(source, HandlerListOff + off + i)
        typed == [k \in 1 .. Magnitude(s) |->
                     [exception |-> [kind |-> "Ty",
                                     type |-> call("get_type",
                                                   <<cache, U32(at(2 * k - 1))>>).out.val],
                      addr |-> U64(at(2 * k))]]
    IN  IF s > 0 THEN typed
        ELSE Append(typed, [exception |-> [kind |-> "BaseException"],
                            addr |-> U64(at(2 * Magnitude(s) + 1))])

\* the try blocks of the method of the class that res holds
LoadedTries == res.out.val.val.direct_methods[1].code.val.tries.try_catch_blocks

ClassLoaded == res.op = "classes.next" /\ res.out.some /\ IsOk(res.out.val)

\* C13: a class whose try_items all have a handler_off that is the offset
\* of a handler from the start of the handler list, its size byte counted,
\* loads with one try block per try_item in stored order, with the
\* start_addr and the insn_count of the item and the handlers stored at
\* that offset; with a handler_off that is no such offset the load fails
\* with InvalidId.
C13_TryBlocksTakeHandlerAtOffset ==
    (res.op = "classes.next" /\ res.out.some) =>
        LET tries_size == read_u16(source, MemberLayout.items + 6, endian).val
            handler_off(k) == read_u16(source, TryItemOff(k) + 6, endian).val
            starts == HandlerStarts(1, 1)
        IN  IF \A k \in 1 .. tries_size : handler_off(k) \in starts
            THEN /\ IsOk(res.out.val)
                 /\ Len(LoadedTries) = tries_size
                 /\ \A k \in 1 .. tries_size :
                        /\ LoadedTries[k].start_addr = Field32(source, TryItemOff(k), endian)
                        /\ LoadedTries[k].insn_count
                               = read_u16(source, TryItemOff(k) + 4, endian).val
                        /\ LoadedTries[k].catch_handlers = StoredHandlers(handler_off(k))
            ELSE IsErrOf(res.out.val, "InvalidId")

\* two try blocks in stored order, the first with the second handler of
\* the list, which starts 4 bytes into it, the second with the first
C13_SecondHandlerAtOffsetFour ==
    /\ ClassLoaded
    /\ Len(LoadedTries) = 2
    /\ read_u16(source, TryItemOff(1) + 6, endian).val = 4
    /\ read_u16(source, TryItemOff(2) + 6, endian).val = 1
    /\ LoadedTries[1].start_addr = U32(4)
    /\ LoadedTries[2].start_addr = U32(8)
    /\ LoadedTries[1].catch_handlers[1].addr = U64(21)
    /\ LoadedTries[2].catch_handlers[1].addr = U64(11)

\* C14: the catch handlers of a try block whose handler has the stored
\* size s are |s| typed handlers in stored order, followed by one
\* catch-all handler if and only if s <= 0.
C14_HandlersBySignedSize ==
    ClassLoaded =>
        \A k \in 1 .. Len(LoadedTries) :
            LET handlers == LoadedTries[k].catch_handlers
                off == read_u16(source, TryItemOff(k) + 6, endian).val
                s == SignedByte(At(source, HandlerListOff + off))
                typed == {i \in 1 .. Len(handlers) : handlers[i].exception.kind = "Ty"}
            IN  /\ typed = 1 .. Magnitude(s)
                /\ Len(handlers) = Magnitude(s) + (IF s <= 0 THEN 1 ELSE 0)
                /\ \A i \in typed :
                       /\ handlers[i].exception.type.id
                              = U32(At(source, HandlerListOff + off + 2 * i - 1))
                       /\ handlers[i].addr = U64(At(source, HandlerListOff + off + 2 * i))
                /\ s <= 0 =>
                       /\ handlers[Len(handlers)].exception.kind = "BaseException"
                       /\ handlers[Len(handlers)].addr
                              = U64(At(source, HandlerListOff + off + 2 * Magnitude(s) + 1))

\* a handler of size -2 after a handler of size 1: two typed handlers and
\* the catch-all, read from where the first handler ends without a
\* catch-all address
C14_NegativeSizeAfterPositive ==
    /\ ClassLoaded
    /\ SignedByte(At(source, HandlerListOff + 1)) = 1
    /\ SignedByte(At(source, HandlerListOff + 4)) = 0 - 2
    /\ read_u16(source, TryItemOff(1) + 6, endian).val = 4
    /\ Len(LoadedTries[1].catch_handlers) = 3
    /\ LoadedTries[1].catch_handlers[3]
           = [exception |-> [kind |-> "BaseException"], addr |-> U64(29)]

(***************************************************************************)
(* Encoded values: a Dex over a file with one class of one static field,   *)
(* whose static values are one encoded_value with any header byte and one  *)
(* of the payloads; the class is loaded through Dex::classes.              *)
(***************************************************************************)
Payloads ==
    {<<156, 208, 1, 127, 128, 0, 255, 3>>, <<240, 208, 200, 2, 5, 129, 7, 200>>,
     <<16, 47, 0, 0, 0, 0, 0, 0>>, <<1, 0, 0, 0, 0, 0, 0, 0>>}

InitValues ==
    \E en \in Endians, checks \in BOOLEAN, value \in 0 .. 255, payload \in Payloads :
        /\ source = MemberFile(en, NO_INDEX, <<>>,
                               ClassDataBytes(<<0>>, <<>>, <<>>, <<0>>),
                               <<1, value>> \o payload)
        /\ overflow_checks = checks
        /\ debug_assertions = checks
        /\ inner = DexReader_from_vec(source, checks)
        /\ IsOk(inner)
        /\ cache = Cache_new(StringCacheSize)
        /\ iter = None
        /\ res = Call("from_vec", <<>>, inner)

SpecValues == InitValues /\ [][NextClass]_vars

(***************************************************************************)
(* Claims about encoded values.  The stored value is read from the bytes   *)
(* at static_values_off: the size of the array, the header byte, the       *)
(* payload.                                                                *)
(***************************************************************************)
StoredValueType == At(source, ToNat(res.arg.static_values_off) + 1) % 32

StoredValueArg == At(source, ToNat(res.arg.static_values_off) + 1) \div 32

\* byte i of the payload, from 1
StoredByte(i) == At(source, ToNat(res.arg.static_values_off) + 1 + i)

\* a little-endian byte array as a signed and as an unsigned number
RECURSIVE UnsignedLE(_)
UnsignedLE(bytes) ==
    IF bytes = <<>> THEN 0 ELSE Head(bytes) + 256 * UnsignedLE(Tail(bytes))

RECURSIVE SignedLE(_)
SignedLE(bytes) ==
    IF Len(bytes) = 1 THEN (IF Head(bytes) >= 128 THEN Head(bytes) - 256 ELSE Head(bytes))
    ELSE Head(bytes) + 256 * SignedLE(Tail(bytes))

\* C15: a Byte, Short, Int or Long of k = value_arg + 1 stored bytes decodes
\* to those bytes followed by bytes FF up to the width of the type when the
\* top bit of the last stored byte is set, by bytes 00 otherwise, and is
\* the same signed number as the stored bytes; a Char is followed by bytes
\* 00 and is the same unsigned number.
C15_NumbersAreSignExtended ==
    (/\ ClassLoaded
     /\ StoredValueType \in {0, 2, 3, 4, 6}
     /\ StoredValueArg + 1 <= ValueSize(ValueTypeName(StoredValueType))) =>
        LET k == StoredValueArg + 1
            width == ValueSize(ValueTypeName(StoredValueType))
            signed == StoredValueType # 3
            stored == [i \in 1 .. k |-> StoredByte(i)]
            value == res.out.val.val.static_fields[1].initial_value
        IN  /\ value.some
            /\ value.val.type = ValueTypeName(StoredValueType)
            /\ value.val.bytes =
                   [i \in 1 .. width |->
                       IF i <= k THEN StoredByte(i)
                       ELSE IF signed /\ StoredByte(k) >= 128 THEN 255 ELSE 0]
            /\ (signed /\ width <= 4) => SignedLE(value.val.bytes) = SignedLE(stored)
            /\ ~signed => UnsignedLE(value.val.bytes) = UnsignedLE(stored)

\* an Int of the one stored byte 9C is -100 in four bytes
C15_IntOfOneNegativeByte ==
    /\ ClassLoaded
    /\ StoredValueType = 4 /\ StoredValueArg = 0 /\ StoredByte(1) = 156
    /\ res.out.val.val.static_fields[1].initial_value
           = Some([type |-> "Int", bytes |-> <<156, 255, 255, 255>>])
    /\ SignedLE(res.out.val.val.static_fields[1].initial_value.val.bytes) = 0 - 100

\* C16: a value whose value_type is none of the 18 value types, or whose
\* value_arg its type does not allow, decodes to an error: the class does
\* not load and the load does not abort.
C16_DisallowedHeaderIsAnError ==
    (/\ res.op = "classes.next" /\ res.out.some
     /\ \/ StoredValueType \notin ValueTypes
        \/ ~ValueArgAssert(ValueTypeName(StoredValueType), StoredValueArg)) =>
        IsErr(res.out.val)

(***************************************************************************)
(* Opening a file with another data section: a valid buffer is opened,     *)
(* then map_off, data_size and data_off of its header are replaced, the    *)
(* checksum is made to match and the buffer is opened again.  res.arg of   *)
(* the second open is the three words.                                     *)
(***************************************************************************)
\* src with the three header fields replaced, and the checksum of that
WithDataSection(src, en, map_off, data_size, data_off) ==
    LET summed(tail) == SubSeq(src, 1, 8) \o Bytes32(adler32(tail, 0), en) \o tail
    IN  summed(SubSeq(src, 13, 52) \o Bytes32(map_off, en)
               \o SubSeq(src, 57, 104) \o Bytes32(data_size, en)
               \o Bytes32(data_off, en) \o SubSeq(src, 113, Len(src)))

\* words around the data section of IdsFile(0, FALSE, en), which is
\* [120, 142), and words whose sums pass 2^32
DataWords ==
    {U32(0), U32(22), U32(119), U32(120), U32(141), U32(142),
     <<0, Base \div 2>>, <<Base - 120, Base - 1>>, NO_INDEX}

InitHeader ==
    \E en \in Endians, checks \in BOOLEAN :
        /\ source = IdsFile(0, FALSE, en)
        /\ overflow_checks = checks
        /\ debug_assertions = checks
        /\ inner = DexReader_from_vec(source, checks)
        /\ IsOk(inner)
        /\ cache = Cache_new(StringCacheSize)
        /\ iter = None
        /\ res = Call("from_vec", <<>>, inner)

\* DexReader::from_vec of the buffer with another data section
OpenWithDataSection ==
    /\ res.arg = <<>>
    /\ \E map_off \in DataWords, data_size \in DataWords, data_off \in DataWords :
           /\ source' = WithDataSection(source, endian, map_off, data_size, data_off)
           /\ inner' = DexReader_from_vec(source', overflow_checks)
           /\ res' = Call("from_vec", <<map_off, data_size, data_off>>, inner')
    /\ cache' = Cache_new(StringCacheSize)
    /\ UNCHANGED <<overflow_checks, debug_assertions, iter>>

NextHeader == OpenWithDataSection

SpecHeader == InitHeader /\ [][NextHeader]_vars

\* data_off <= x < data_off + data_size, the sum not reduced modulo 2^32
InDataSection(x, data_off, data_size) ==
    Le(data_off, x) /\ Lt(Sub(x, data_off).val, data_size)

\* C21: opening a buffer whose map_off is not in
\* [data_off, data_off + data_size) fails with BadOffset, for all words
\* data_off, data_size and map_off, also those whose sum passes 2^32.
C21_MapOffOutsideDataSection ==
    (/\ res.op = "from_vec" /\ res.arg # <<>>
     /\ ~InDataSection(res.arg[1], res.arg[3], res.arg[2]))
        => IsErrOf(res.out, "BadOffset")

(***************************************************************************)
(* Access flags: a Dex over a file with one class of one static field and  *)
(* one direct method, with flags of the class, the field and the method    *)
(* that have defined bits only, or a bit that is defined for another kind  *)
(* or for none, up to bit 32; the class is loaded through Dex::classes.    *)
(***************************************************************************)
\* ULEB128 of 0, 1, 0x19, 0x20, 0x100, 0x200, 0x4000, 0x10000, 2^32 and
\* 2^32 + 1
MemberFlags ==
    {<<0>>, <<1>>, <<25>>, <<32>>, <<128, 2>>, <<128, 4>>, <<128, 128, 1>>,
     <<128, 128, 4>>, <<128, 128, 128, 128, 16>>, <<129, 128, 128, 128, 16>>}

ClassFlags ==
    {U32(0), U32(1), U32(17), U32(32), U32(512), U32(32768), <<0, Base \div 2>>,
     <<1, 1>>}

InitFlags ==
    \E en \in Endians, checks \in BOOLEAN, class \in ClassFlags,
       field \in MemberFlags, method \in MemberFlags :
        /\ source = FlaggedMemberFile(en, NO_INDEX, class, <<>>,
                                      <<1, 0, 1, 0, 0>> \o field \o <<0>> \o method
                                      \o <<0>>,
                                      <<>>)
        /\ overflow_checks = checks
        /\ debug_assertions = checks
        /\ inner = DexReader_from_vec(source, checks)
        /\ IsOk(inner)
        /\ cache = Cache_new(StringCacheSize)
        /\ iter = None
        /\ res = Call("from_vec", <<>>, inner)

SpecFlags == InitFlags /\ [][NextClass]_vars

\* the length of the ULEB128 at offset o
RECURSIVE UlebLen(_)
UlebLen(o) == IF At(source, o) < 128 THEN 1 ELSE 1 + UlebLen(o + 1)

\* the bits that are set in the ULEB128 at offset o
UlebBits(o) ==
    {b \in 0 .. (7 * UlebLen(o) - 1) :
        (At(source, o + (b \div 7)) \div (2 ^ (b % 7))) % 2 = 1}

WordBits(w) == {b \in 0 .. (16 * Len(w) - 1) : Bit(w, b) = 1}

\* some bit of the set is not one of the flags
UnknownBits(bits, flags) == \E b \in bits : b >= 31 \/ 2 ^ b \notin flags

\* where the flags of the field and of the method of the class are stored
StoredFieldFlags == ToNat(res.arg.class_data_off) + 5

StoredMethodFlags == StoredFieldFlags + UlebLen(StoredFieldFlags) + 1

\* C22: a class whose access_flags, or the access_flags of whose field or
\* method, have a bit that is not a flag of that kind does not load: the
\* load returns InvalidId; with defined bits only the class loads.
C22_UnknownFlagBitsAreInvalidId ==
    (res.op = "classes.next" /\ res.out.some) =>
        IF \/ UnknownBits(WordBits(res.arg.access_flags), ClassAccessFlags)
           \/ UnknownBits(UlebBits(StoredFieldFlags), FieldAccessFlags)
           \/ UnknownBits(UlebBits(StoredMethodFlags), MethodAccessFlags)
        THEN IsErrOf(res.out.val, "InvalidId")
        ELSE /\ IsOk(res.out.val)
             /\ res.out.val.val.access_flags = res.arg.access_flags
             /\ WordBits(res.out.val.val.static_fields[1].access_flags)
                    = UlebBits(StoredFieldFlags)
             /\ WordBits(res.out.val.val.direct_methods[1].access_flags)
                    = UlebBits(StoredMethodFlags)

\* a public class and a public method, and a field whose only flag bit is
\* bit 32: InvalidId from the field
C22_FieldFlagBit32 ==
    /\ res.op = "classes.next" /\ res.out.some
    /\ res.arg.access_flags = U32(1)
    /\ UlebBits(StoredFieldFlags) = {32}
    /\ UlebBits(StoredMethodFlags) = {0}
    /\ res.out.val = Err("InvalidId", "Invalid access flags when loading field")

(***************************************************************************)
(* Parameter annotations: a Dex over a file with two annotation items, a   *)
(* set of the first and a set of both, and an annotation_set_ref_list of   *)
(* up to MaxRefs offsets, each 0, the offset of a set or an offset before  *)
(* the data section; the list is read with get_annotation_set_ref_list.    *)
(***************************************************************************)
MaxRefs == 3

\* where the items are, from the first item of the data section on
RefLayout ==
    [first_set |-> MemberLayout.items + 8, second_set |-> MemberLayout.items + 16,
     ref_list |-> MemberLayout.items + 28]

RefOffsets == {0, 1, RefLayout.first_set, RefLayout.second_set}

RefLists == UNION {[1 .. n -> RefOffsets] : n \in 0 .. MaxRefs}

RefListBytes(offs, en) ==
    <<0, 0, 0, 0, 1, 1, 0, 0>>
    \o Nat32(1, en) \o Nat32(MemberLayout.items, en)
    \o Nat32(2, en) \o Nat32(MemberLayout.items, en)
    \o Nat32(MemberLayout.items + 4, en)
    \o Nat32(Len(offs), en) \o Flatten([i \in 1 .. Len(offs) |-> Nat32(offs[i], en)])

InitRefs ==
    \E en \in Endians, checks \in BOOLEAN, offs \in RefLists :
        /\ source = MemberFile(en, NO_INDEX, RefListBytes(offs, en), <<0, 0, 0, 0>>,
                               <<>>)
        /\ overflow_checks = checks
        /\ debug_assertions = checks
        /\ inner = DexReader_from_vec(source, checks)
        /\ IsOk(inner)
        /\ cache = Cache_new(StringCacheSize)
        /\ iter = None
        /\ res = Call("from_vec", <<>>, inner)

GetAnnotationSetRefList ==
    /\ \E offset \in {U32(0), U32(RefLayout.ref_list), U32(RefLayout.ref_list + 4)} :
           Returned("get_annotation_set_ref_list", offset,
                    call("get_annotation_set_ref_list", <<cache, offset>>))
    /\ UNCHANGED <<fixed, iter>>

GetAnnotationSet ==
    /\ \E offset \in RefOffsets :
           Returned("get_annotation_set_item", U32(offset),
                    call("get_annotation_set_item", <<cache, U32(offset)>>))
    /\ UNCHANGED <<fixed, iter>>

NextRefs == GetAnnotationSetRefList \/ GetAnnotationSet

SpecRefs == InitRefs /\ [][NextRefs]_vars

\* the size and the i-th offset stored in the list at offset o
StoredRefSize(o) == read_u32(source, ToNat(o), endian).val

StoredRef(o, i) == read_u32(source, ToNat(o) + 4 * i, endian).val

\* C23: the list read at an offset has as many sets as its stored size, in
\* the stored order: the empty set for offset 0 and the set that
\* get_annotation_set_item reads at the offset otherwise; it is read
\* whenever each of these sets is.
C23_RefListDecodesStoredSets ==
    (res.op = "get_annotation_set_ref_list" /\ ~IsZero(res.arg)) =>
        LET n == ToNat(StoredRefSize(res.arg))
            item(i) == get_annotation_set_item(cache, StoredRef(res.arg, i)).out
        IN  IF \A i \in 1 .. n : IsOk(item(i))
            THEN /\ IsOk(res.out)
                 /\ Len(res.out.val.annotation_set_list) = n
                 /\ \A i \in 1 .. n :
                        /\ res.out.val.annotation_set_list[i] = item(i).val
                        /\ IsZero(StoredRef(res.arg, i)) =>
                               res.out.val.annotation_set_list[i]
                                   = AnnotationSetItem_default
            ELSE ~IsOk(res.out)

\* a list of three: the set of two annotations, the empty set for offset 0
\* and the set of one annotation
C23_EmptySetBetweenTwoSets ==
    /\ res.op = "get_annotation_set_ref_list" /\ IsOk(res.out)
    /\ StoredRefSize(res.arg) = U32(3)
    /\ StoredRef(res.arg, 1) = U32(RefLayout.second_set)
    /\ StoredRef(res.arg, 2) = U32(0)
    /\ StoredRef(res.arg, 3) = U32(RefLayout.first_set)
    /\ Len(res.out.val.annotation_set_list) = 3
    /\ Len(res.out.val.annotation_set_list[1].annotations) = 2
    /\ res.out.val.annotation_set_list[2].annotations = <<>>
    /\ Len(res.out.val.annotation_set_list[3].annotations) = 1

(***************************************************************************)
(* The binary search: a Dex over a file whose type_ids table holds up to   *)
(* MaxTypes ascending descriptor indices, searched by Dex::get_type_id     *)
(* (Section::binary_search with the comparator element.cmp(value)) for     *)
(* every index around the stored ones.                                     *)
(***************************************************************************)
MaxTypes == 5

\* the descriptor indices a table is drawn from, and the queries
Descriptors == {2 * k - 1 : k \in 1 .. MaxTypes}

TypeQueries == 0 .. (2 * MaxTypes)

RECURSIVE Ascending(_)
Ascending(S) ==
    IF S = {} THEN <<>>
    ELSE LET m == CHOOSE x \in S : \A y \in S : x <= y
         IN  <<m>> \o Ascending(S \ {m})

\* a file of the type_ids table and a map_list
SearchFile(types, en) ==
    LET data_off == HeaderSize + 4 * Len(types)
        data == MapListBytes(data_off, en)
        h == [file_size       |-> U32(data_off + Len(data)),
              map_off         |-> U32(data_off),
              string_ids_size |-> U32(0), string_ids_off |-> U32(0),
              type_ids_size   |-> U32(Len(types)), type_ids_off |-> U32(HeaderSize),
              proto_ids_size  |-> U32(0), proto_ids_off  |-> U32(0),
              field_ids_size  |-> U32(0), field_ids_off  |-> U32(0),
              method_ids_size |-> U32(0), method_ids_off |-> U32(0),
              class_defs_size |-> U32(0), class_defs_off |-> U32(0),
              data_size       |-> U32(Len(data)), data_off |-> U32(data_off)]
    IN  WithHeader(h, Flatten([i \in 1 .. Len(types) |-> Nat32(types[i], en)]) \o data,
                   en)

InitSearch ==
    \E S \in SUBSET Descriptors, en \in Endians, checks \in BOOLEAN :
        /\ source = SearchFile(Ascending(S), en)
        /\ overflow_checks = checks
        /\ debug_assertions = checks
        /\ inner = DexReader_from_vec(source, checks)
        /\ IsOk(inner)
        /\ cache = Cache_new(StringCacheSize)
        /\ iter = None
        /\ res = Call("from_vec", <<>>, inner)

GetTypeId ==
    /\ \E q \in TypeQueries :
           res' = Call("get_type_id", U32(q), call("get_type_id", <<U32(q)>>))
    /\ UNCHANGED <<fixed, cache, iter>>

NextSearch == GetTypeId

SpecSearch == InitSearch /\ [][NextSearch]_vars

\* record i of the type_ids table
StoredType(i) == read_u32(source, ToNat(header.type_ids_off) + 4 * i, endian).val

\* C24: the search of a sorted table returns Ok(Some(i)) for the record i
\* that equals the query and Ok(None) when no record does, for every query,
\* also one below record 0, and for the empty table.
C24_SearchFindsExactlyTheMatch ==
    res.op = "get_type_id" =>
        LET n == ToNat(header.type_ids_size)
            matches == {i \in 0 .. (n - 1) : StoredType(i) = res.arg}
        IN  IF matches = {} THEN res.out = Ok(None)
            ELSE \E i \in matches : res.out = Ok(Some(U32(i)))

(***************************************************************************)
(* Annotated members: a Dex over a file with one class whose two fields    *)
(* are each static, instance or absent and whose two methods are each      *)
(* direct, virtual or absent, and an annotations directory whose field,    *)
(* method and parameter lists each hold any of the ids, ascending; the     *)
(* class has fields with field annotations or methods with method and      *)
(* parameter annotations, and is loaded through Dex::classes.              *)
(***************************************************************************)
MemberIds == {0, 1}

\* the ids of a kind in a choice of kinds, ascending
OfKind(kinds, kind) == Ascending({x \in MemberIds : kinds[x] = kind})

DiffsOf(ids) == [k \in 1 .. Len(ids) |-> IF k = 1 THEN ids[1] ELSE ids[k] - ids[k - 1]]

\* a class_data_item of the fields and methods with the ids
MembersBytes(static, instance, direct, virtual) ==
    <<Len(static), Len(instance), Len(direct), Len(virtual)>>
    \o EncodedFields(DiffsOf(static), 9) \o EncodedFields(DiffsOf(instance), 1)
    \o EncodedMethods(DiffsOf(direct), <<0>>) \o EncodedMethods(DiffsOf(virtual), <<0>>)

\* where the items are, from the first item of the data section on: the
\* two sets and the list of one set of RefListBytes, a list of two, and
\* the directory
DirectoryLayout ==
    [second_list |-> RefLayout.ref_list + 8, directory |-> RefLayout.ref_list + 20]

\* the set of the field, the set of the method and the list of the method
\* with an id
AnnotationOff(list, id) ==
    CASE list = "field"  -> IF id = 0 THEN RefLayout.first_set ELSE RefLayout.second_set
      [] list = "method" -> IF id = 0 THEN RefLayout.second_set ELSE RefLayout.first_set
      [] OTHER           -> IF id = 0 THEN RefLayout.ref_list
                            ELSE DirectoryLayout.second_list

AnnotationEntries(list, ids, en) ==
    Flatten([k \in 1 .. Len(ids) |->
                Nat32(ids[k], en) \o Nat32(AnnotationOff(list, ids[k]), en)])

DirectoryBytes(fields, methods, parameters, en) ==
    RefListBytes(<<RefLayout.first_set>>, en)
    \o Nat32(2, en) \o Nat32(0, en) \o Nat32(RefLayout.second_set, en)
    \o Nat32(0, en) \o Nat32(Len(fields), en) \o Nat32(Len(methods), en)
    \o Nat32(Len(parameters), en)
    \o AnnotationEntries("field", fields, en)
    \o AnnotationEntries("method", methods, en)
    \o AnnotationEntries("parameter", parameters, en)

MemberKinds == {"first", "second", "absent"}

NoMember == [x \in MemberIds |-> "absent"]

InitAnnotated ==
    \E en \in Endians, checks \in BOOLEAN,
       fields \in [MemberIds -> MemberKinds], methods \in [MemberIds -> MemberKinds],
       F \in SUBSET MemberIds, M \in SUBSET MemberIds, P \in SUBSET MemberIds :
        /\ \/ F = {} /\ fields = NoMember
           \/ M = {} /\ P = {} /\ methods = NoMember
        /\ source = AnnotatedMemberFile(
                        en, NO_INDEX, U32(1), DirectoryLayout.directory,
                        DirectoryBytes(Ascending(F), Ascending(M), Ascending(P), en),
                        MembersBytes(OfKind(fields, "first"), OfKind(fields, "second"),
                                     OfKind(methods, "first"),
                                     OfKind(methods, "second")),
                        <<>>)
        /\ overflow_checks = checks
        /\ debug_assertions = checks
        /\ inner = DexReader_from_vec(source, checks)
        /\ IsOk(inner)
        /\ cache = Cache_new(StringCacheSize)
        /\ iter = None
        /\ res = Call("from_vec", <<>>, inner)

SpecAnnotated == InitAnnotated /\ [][NextClass]_vars

\* the annotations that the entries of a list hold for an id
EntriesOf(list, id) == {list[i].annotations : i \in {k \in DOMAIN list : list[k].idx = id}}

\* what a member with an id is to carry: the annotations of its entry, or
\* the default when the list has no entry for the id
Carries(annotations, list, id, default) ==
    IF EntriesOf(list, id) = {} THEN annotations = default
    ELSE annotations \in EntriesOf(list, id)

\* C25: in a class that loads from sorted annotation lists with distinct
\* ids, each field, static fields first, carries the annotations of the
\* field entry with its id, or none when there is no such entry, and each
\* method, direct methods first, those of the method entry and of the
\* parameter entry with its id.
C25_MembersCarryTheirEntries ==
    (res.op = "classes.next" /\ res.out.some) =>
        LET class == res.out.val.val
            checked(items, directory) ==
                /\ IsOk(res.out.val)
                /\ \A i \in DOMAIN class.static_fields :
                       Carries(class.static_fields[i].annotations,
                               directory.field_annotations,
                               Items(items.static_fields)[i].id,
                               AnnotationSetItem_default)
                /\ \A i \in DOMAIN class.instance_fields :
                       Carries(class.instance_fields[i].annotations,
                               directory.field_annotations,
                               Items(items.instance_fields)[i].id,
                               AnnotationSetItem_default)
                /\ \A i \in DOMAIN class.direct_methods :
                       /\ Carries(class.direct_methods[i].annotations,
                                  directory.method_annotations,
                                  Items(items.direct_methods)[i].id,
                                  AnnotationSetItem_default)
                       /\ Carries(class.direct_methods[i].param_annotations,
                                  directory.parameter_annotations,
                                  Items(items.direct_methods)[i].id,
                                  AnnotationSetRefList_default)
                /\ \A i \in DOMAIN class.virtual_methods :
                       /\ Carries(class.virtual_methods[i].annotations,
                                  directory.method_annotations,
                                  Items(items.virtual_methods)[i].id,
                                  AnnotationSetItem_default)
                       /\ Carries(class.virtual_methods[i].param_annotations,
                                  directory.parameter_annotations,
                                  Items(items.virtual_methods)[i].id,
                                  AnnotationSetRefList_default)
        IN  checked(get_class_data(res.arg.class_data_off).val.val,
                    get_annotations_directory_item(cache, res.arg.annotations_off)
                        .out.val)

\* method 1 is direct and method 0 virtual, the method and the parameter
\* list have entries for both ids: the entries of id 1 are taken first and
\* the method of id 0 still finds its own
C25_SecondEntryTakenFirst ==
    /\ res.op = "classes.next" /\ res.out.some /\ IsOk(res.out.val)
    /\ Len(res.out.val.val.direct_methods) = 1
    /\ Len(res.out.val.val.direct_methods[1].annotations.annotations) = 1
    /\ Len(res.out.val.val.direct_methods[1].param_annotations.annotation_set_list) = 2
    /\ Len(res.out.val.val.virtual_methods) = 1
    /\ Len(res.out.val.val.virtual_methods[1].annotations.annotations) = 2
    /\ Len(res.out.val.val.virtual_methods[1].param_annotations.annotation_set_list) = 1

(***************************************************************************)
(* Difference ids: a Dex over a file with one class whose class_data_item  *)
(* has up to two items in each of its four arrays, with differences of 1,  *)
(* 200 and 2^64 - 1; the item is read with get_class_data.                 *)
(***************************************************************************)
\* ULEB128 of 2^64 - 1
MaxDelta == <<255, 255, 255, 255, 255, 255, 255, 255, 255, 1>>

\* the differences of the items of an array
DeltaLists == {<<>>, <<<<1>>>>, <<<<200, 1>>>>, <<<<1>>, <<1>>>>, <<<<200, 1>>, <<1>>>>,
               <<<<1>>, MaxDelta>>}

\* items of a difference and of further ULEB128 fields
EncodedItems(deltas, fields) ==
    Flatten([k \in 1 .. Len(deltas) |-> deltas[k] \o fields])

InitDeltas ==
    \E en \in Endians, checks \in BOOLEAN, static \in DeltaLists, instance \in DeltaLists,
       direct \in DeltaLists, virtual \in DeltaLists :
        /\ source = MemberFile(en, NO_INDEX, <<>>,
                               <<Len(static), Len(instance), Len(direct), Len(virtual)>>
                               \o EncodedItems(static, <<9>>)
                               \o EncodedItems(instance, <<1>>)
                               \o EncodedItems(direct, <<1, 0>>)
                               \o EncodedItems(virtual, <<1, 0>>),
                               <<>>)
        /\ overflow_checks = checks
        /\ debug_assertions = checks
        /\ inner = DexReader_from_vec(source, checks)
        /\ IsOk(inner)
        /\ cache = Cache_new(StringCacheSize)
        /\ iter = None
        /\ res = Call("from_vec", <<>>, inner)

GetClassDataItem ==
    /\ \E offset \in {U32(0), U32(MemberLayout.items)} :
           res' = Call("get_class_data", offset, call("get_class_data", <<offset>>))
    /\ UNCHANGED <<fixed, cache, iter>>

NextDeltas == GetClassDataItem

SpecDeltas == InitDeltas /\ [][NextDeltas]_vars

\* the offset after n ULEB128 from offset o on
RECURSIVE AfterUlebs(_, _)
AfterUlebs(o, n) == IF n = 0 THEN o ELSE AfterUlebs(o + UlebLen(o), n - 1)

\* the 64-bit word with the bits of a set
RECURSIVE BitSum(_, _, _)
BitSum(bits, limb, j) ==
    IF j = 16 THEN 0
    ELSE (IF 16 * limb + j \in bits THEN 2 ^ j ELSE 0) + BitSum(bits, limb, j + 1)

WordOfBits(bits) == [i \in 1 .. 4 |-> BitSum(bits, i - 1, 0)]

\* the sum of the differences stored in the first k of the items of
\* `fields` ULEB128 each from offset o on, and whether it is 2^64 or more
RECURSIVE DeltaSum(_, _, _)
DeltaSum(o, k, fields) ==
    IF k = 0 THEN [val |-> U64(0), ovf |-> FALSE]
    ELSE LET add(delta, rest) ==
                 [val |-> Add(rest.val, delta).val,
                  ovf |-> rest.ovf \/ Add(rest.val, delta).ovf]
         IN  add(WordOfBits(UlebBits(AfterUlebs(o, fields * (k - 1)))),
                 DeltaSum(o, k - 1, fields))

\* where array k of the class_data_item at offset o begins
StoredArray(o, k) ==
    LET fields(j) == IF j <= 2 THEN 2 ELSE 3
        RECURSIVE from(_)
        from(j) == IF j = 1 THEN o + 4
                   ELSE AfterUlebs(from(j - 1), fields(j - 1) * At(source, o + j - 2))
    IN  from(k)

\* C26: the class_data_item decodes with, in each of its four arrays, the
\* id of item k equal to the sum of the stored differences of the items up
\* to k of that array, starting from 0 in each array.
C26_IdsAreSumsOfDifferences ==
    (res.op = "get_class_data" /\ ~IsZero(res.arg)) =>
        LET o == ToNat(res.arg)
            sums(k, items) ==
                /\ Len(items) = At(source, o + k - 1)
                /\ \A i \in DOMAIN items :
                       LET sum == DeltaSum(StoredArray(o, k), i, IF k <= 2 THEN 2 ELSE 3)
                       IN  ~sum.ovf /\ items[i].id = sum.val
        IN  /\ IsOk(res.out)
            /\ res.out.val.some
            /\ sums(1, Items(res.out.val.val.static_fields))
            /\ sums(2, Items(res.out.val.val.instance_fields))
            /\ sums(3, Items(res.out.val.val.direct_methods))
            /\ sums(4, Items(res.out.val.val.virtual_methods))

(***************************************************************************)
(* Debug info: a Dex over a file that ends with a debug_info_item of up to *)
(* MaxOpcodes bytecodes, with or without an EndSequence and with bytecodes *)
(* after it or an operand cut by the end of the file; the item is read     *)
(* with get_debug_info_item.                                               *)
(***************************************************************************)
MaxOpcodes == 3

\* EndSequence, AdvancePc 0 and 5, an AdvancePc without the end of its
\* operand, AdvanceLine -1, StartLocal, SetPrologueEnd, SetFile of string
\* 0 and two special opcodes
DebugOpcodes ==
    {<<0>>, <<1, 0>>, <<1, 5>>, <<1, 128>>, <<2, 127>>, <<3, 0, 1, 1>>, <<7>>, <<9, 1>>,
     <<10>>, <<255>>}

DebugStreams == UNION {[1 .. n -> DebugOpcodes] : n \in 0 .. MaxOpcodes}

\* where the debug_info_item and its bytecodes are
DebugLayout ==
    [data_off |-> HeaderSize + 4, string |-> HeaderSize + 20, item |-> HeaderSize + 23,
     bytecodes |-> HeaderSize + 25]

\* a file of the string "a", a map_list and a debug_info_item of line 1
\* without parameters
DebugFile(stream, en) ==
    LET data == MapListBytes(DebugLayout.data_off, en) \o StringData(<<97>>)
                \o <<1, 0>> \o Flatten(stream)
        h == [file_size       |-> U32(DebugLayout.data_off + Len(data)),
              map_off         |-> U32(DebugLayout.data_off),
              string_ids_size |-> U32(1), string_ids_off |-> U32(HeaderSize),
              type_ids_size   |-> U32(0), type_ids_off   |-> U32(0),
              proto_ids_size  |-> U32(0), proto_ids_off  |-> U32(0),
              field_ids_size  |-> U32(0), field_ids_off  |-> U32(0),
              method_ids_size |-> U32(0), method_ids_off |-> U32(0),
              class_defs_size |-> U32(0), class_defs_off |-> U32(0),
              data_size       |-> U32(Len(data)), data_off |-> U32(DebugLayout.data_off)]
    IN  WithHeader(h, Nat32(DebugLayout.string, en) \o data, en)

InitDebug ==
    \E stream \in DebugStreams, en \in Endians, checks \in BOOLEAN :
        /\ source = DebugFile(stream, en)
        /\ overflow_checks = checks
        /\ debug_assertions = checks
        /\ inner = DexReader_from_vec(source, checks)
        /\ IsOk(inner)
        /\ cache = Cache_new(StringCacheSize)
        /\ iter = None
        /\ res = Call("from_vec", <<>>, inner)

GetDebugInfoItem ==
    /\ \E offset \in {U32(DebugLayout.item), U32(DebugLayout.data_off - 1)} :
           Returned("get_debug_info_item", offset,
                    call("get_debug_info_item", <<cache, offset>>))
    /\ UNCHANGED <<fixed, iter>>

NextDebug == GetDebugInfoItem

SpecDebug == InitDebug /\ [][NextDebug]_vars

\* the number of LEB128 operands of an opcode
Operands(opcode) ==
    CASE opcode \in {1, 2, 5, 6, 9} -> 1
      [] opcode = 3 -> 3
      [] opcode = 4 -> 4
      [] OTHER -> 0

\* the offset after n LEB128 from offset o on, or -1 when the file ends
\* within them
RECURSIVE AfterOperands(_, _)
AfterOperands(o, n) ==
    IF n = 0 THEN o
    ELSE IF o >= Len(source) THEN -1
    ELSE IF At(source, o) >= 128 THEN AfterOperands(o + 1, n)
    ELSE AfterOperands(o + 1, n - 1)

\* the opcodes stored from offset o on, up to the first EndSequence, with
\* -1 after them when the file ends before an EndSequence
RECURSIVE StoredOpcodes(_)
StoredOpcodes(o) ==
    IF o < 0 \/ o >= Len(source) THEN <<-1>>
    ELSE IF At(source, o) = 0 THEN <<0>>
    ELSE <<At(source, o)>>
         \o StoredOpcodes(AfterOperands(o + 1, Operands(At(source, o))))

OpcodeName(opcode) ==
    CASE opcode = 0 -> "EndSequence"
      [] opcode = 1 -> "AdvancePc"
      [] opcode = 2 -> "AdvanceLine"
      [] opcode \in {3, 4} -> "StartLocal"
      [] opcode = 5 -> "EndLocal"
      [] opcode = 6 -> "RestartLocal"
      [] opcode = 7 -> "SetPrologueEnd"
      [] opcode = 8 -> "SetEpilogueBegin"
      [] opcode = 9 -> "SetFile"
      [] OTHER -> "Special"

\* C27: the item decodes to the bytecodes up to the first EndSequence
\* opcode, which is the last and only EndSequence of the list, whatever
\* follows it; when the file ends before an EndSequence opcode the decode
\* is an error.
C27_BytecodesEndAtFirstEndSequence ==
    (res.op = "get_debug_info_item" /\ res.arg = U32(DebugLayout.item)) =>
        LET stored == StoredOpcodes(DebugLayout.bytecodes)
            listed(bytecodes) ==
                /\ Len(bytecodes) = Len(stored)
                /\ \A i \in DOMAIN bytecodes : bytecodes[i].op = OpcodeName(stored[i])
                /\ {i \in DOMAIN bytecodes : bytecodes[i].op = "EndSequence"}
                       = {Len(bytecodes)}
        IN  IF stored[Len(stored)] = 0
            THEN IsOk(res.out) /\ listed(res.out.val.bytecodes)
            ELSE IsErr(res.out)

\* AdvancePc 0, EndSequence and a special opcode after it: two bytecodes
C27_OpcodeAfterEndSequence ==
    /\ res.op = "get_debug_info_item" /\ IsOk(res.out)
    /\ SubSeq(source, DebugLayout.bytecodes + 1, Len(source)) = <<1, 0, 0, 255>>
    /\ Len(res.out.val.bytecodes) = 2
    /\ res.out.val.bytecodes[1] = [op |-> "AdvancePc", val |-> U64(0)]
    /\ res.out.val.bytecodes[2] = [op |-> "EndSequence"]

(***************************************************************************)
(* The order of the cache: a Dex over a file of the strings "a", "ab", one *)
(* that is not MUTF-8 and "b", with a cache of a capacity of up to         *)
(* MaxCap + 1; Strings::get calls are interleaved with the steps of a      *)
(* strings() iterator.                                                     *)
(***************************************************************************)
InitLru ==
    \E en \in Endians, checks \in BOOLEAN, cap \in 1 .. (MaxCap + 1) :
        /\ source = StringsFile(<<StringData(<<97>>), StringData(<<97, 98>>),
                                  <<1, 128, 0>>, StringData(<<98>>)>>, en)
        /\ overflow_checks = checks
        /\ debug_assertions = checks
        /\ inner = DexReader_from_vec(source, checks)
        /\ IsOk(inner)
        /\ cache = Cache_new(cap)
        /\ iter = None
        /\ res = Call("from_vec", <<>>, inner)

SpecLru == InitLru /\ [][NextCache]_vars

\* the call of the step looks up the string id, and what it returns
LooksUp(id, made) ==
    \/ made.op = "get" /\ made.arg = id /\ Lt(id, Strings_len)
    \/ made.op = "next" /\ made.out.some /\ made.arg = zext(id, 4)

LookedUp(made) == IF made.op = "get" THEN made.out ELSE made.out.val

\* the entries after a lookup of the id that returned r
AfterLookup(entries, cap, id, r) ==
    LET hit == {i \in DOMAIN entries : entries[i].key = id}
        held(i) == SubSeq(entries, 1, i - 1) \o SubSeq(entries, i + 1, Len(entries))
                   \o <<entries[i]>>
        new == <<[key |-> id, val |-> r.val]>>
    IN  IF hit # {} THEN held(CHOOSE i \in hit : TRUE)
        ELSE IF ~IsOk(r) THEN entries
        ELSE IF Len(entries) = cap THEN Tail(entries) \o new
        ELSE entries \o new

CodeOffsets ==
    {<<lo, 0, hi[1], hi[2]>> :
        lo \in {0, 1, MemberLayout.data_off - 1, MemberLayout.data_off,
                MemberLayout.items, Base - 1},
        hi \in {<<0, 0>>, <<1, 0>>, <<0, Base \div 2>>}}

GetCodeItem ==
    /\ \E code_off \in CodeOffsets :
           Returned("get_code_item", code_off,
                    call("get_code_item", <<cache, code_off>>))
    /\ UNCHANGED <<fixed, iter>>

NextCodeOffsets == GetCodeItem

SpecCodeOffsets == InitCode /\ [][NextCodeOffsets]_vars

\* a 64-bit offset is in [data_off, data_off + data_size)
InDataSection64(x) ==
    /\ Le(zext(header.data_off, 4), x)
    /\ Lt(x, Add(zext(header.data_off, 4), zext(header.data_size, 4)).val)

\* C29: get_code_item returns Ok(None) for offset 0 and BadOffset for every
\* other 64-bit offset outside the data section, also for one from 2^32 up
\* whose low 32 bits are an offset in the data section.
C29_CodeOffCheckedIn64Bits ==
    res.op = "get_code_item" =>
        /\ IsZero(res.arg) => res.out = Ok(None)
        /\ (~IsZero(res.arg) /\ ~InDataSection64(res.arg))
               => IsErrOf(res.out, "BadOffset")

(***************************************************************************)
(* The classes iterator: the file of one class_def per set of damaged      *)
(* constituents, with classes() called at any time, steps of the iterator  *)
(* and get_string lookups in any order over the shared string cache.       *)
(***************************************************************************)
NextClasses == Classes \/ ClassesNext \/ GetString

SpecClasses == InitClass /\ [][NextClasses]_vars

\* the number of class_defs the iterator has yielded
Yielded == ToNat(header.class_defs_size) - ToNat(iter.val.len)

\* record k of the class_defs table
StoredClassDef(k) ==
    ClassDefItem_pread(ToNat(header.class_defs_off) + ClassDefItemSize * k)

\* C30: the iterator yields the class_defs_size records of the table in
\* order, 32 bytes apart from class_defs_off on, and None after them; the
\* element of a record is the class that Class::try_from_dex makes of the
\* record alone, loaded or failed, whatever classes and strings were
\* requested before it.
C30_ClassesYieldEachRecordAlone ==
    /\ iter.some =>
           /\ Le(iter.val.len, header.class_defs_size)
           /\ iter.val.offset
                  = U64(ToNat(header.class_defs_off) + ClassDefItemSize * Yielded)
    /\ res.op = "classes.next" =>
           IF res.out.some
           THEN /\ Yielded >= 1
                /\ Ok(res.arg) = StoredClassDef(Yielded - 1)
                /\ res.out.val
                       = Class_try_from_dex(Cache_new(StringCacheSize), res.arg).out
           ELSE IsZero(iter.val.len)

\* the second class fails right after the first, which loads alone, was
\* yielded, with both strings in the cache
C30_FailedClassAfterLoadedClass ==
    /\ res.op = "classes.next" /\ res.out.some /\ IsErr(res.out.val)
    /\ Yielded = 2
    /\ IsOk(Class_try_from_dex(Cache_new(StringCacheSize), StoredClassDef(0).val).out)
    /\ Len(cache.entries) = 2

=============================================================================
